---------------------------- MODULE Spec2Model ----------------------------
(***************************************************************************)
(* A model of the notebook's persistence adapter (ExcelStorage, a          *)
(* read-modify-write of one localStorage blob) and of its state store      *)
(* (notepadReducer).                                                       *)
(*                                                                         *)
(* Strings are sequences of one-character strings, so that JSON's string   *)
(* escaping is a real conversion.  A Date is its ECMAScript time value     *)
(* split as [day |-> Day(t), ms |-> TimeWithinDay(t)] (t itself exceeds    *)
(* the checker's integers); an ISO-8601 string is the tuple of its         *)
(* fields <<year, month, date, hours, minutes, seconds, milliseconds>>.    *)
(***************************************************************************)
EXTENDS Integers, Sequences, FiniteSets, TLC

\* ------------------------------------------------------------- bounds
\* Document ids are 1..NumDocIds (standing for the strings Date.now().toString()).
NumDocIds == 2

DocIds == 1..NumDocIds

\* The todo list holds one todo, saved in two shapes.
TodoIds == { 1 }

\* ------------------------------------------------------------- sequences
SeqMap(F(_), s) == [i \in 1..Len(s) |-> F(s[i])]

RECURSIVE Concat(_)
\* The concatenation of a sequence of sequences.
Concat(ss) == IF ss = <<>> THEN <<>> ELSE Head(ss) \o Concat(Tail(ss))

\* ------------------------------------------------------------- strings
\* A string is the sequence of its characters; a template's fixed text is
\* one element.
UpperCase ==
    << "A", "B", "C", "D", "E", "F", "G", "H", "I", "J", "K", "L", "M", "N", "O", "P", "Q",
    "R", "S", "T", "U", "V", "W", "X", "Y", "Z" >>

LowerCase ==
    << "a", "b", "c", "d", "e", "f", "g", "h", "i", "j", "k", "l", "m", "n", "o", "p", "q",
    "r", "s", "t", "u", "v", "w", "x", "y", "z" >>

\* The lower-case form of one character.
LowerOf ==
    [ c \in { UpperCase[k] : k \in 1..Len(UpperCase) } |->
        LowerCase[CHOOSE k \in 1..Len(UpperCase) : UpperCase[k] = c] ]

toLowerChar(c) == IF c \in DOMAIN LowerOf THEN LowerOf[c] ELSE c

\* String.prototype.toLowerCase
toLowerCase(s) == [ i \in 1..Len(s) |-> toLowerChar(s[i]) ]

\* sub occurs in s at index i
OccursAt(s, i, sub) ==
    /\ i >= 1
    /\ i + Len(sub) - 1 <= Len(s)
    /\ \A k \in 1..Len(sub) : s[i + k - 1] = sub[k]

\* sub, which is in lower case, occurs in s at index i when case is
\* ignored: the i flag of a regular expression.
OccursAtIgnoringCase(s, i, sub) ==
    /\ i >= 1
    /\ i + Len(sub) - 1 <= Len(s)
    /\ \A k \in 1..Len(sub) : toLowerChar(s[i + k - 1]) = sub[k]

\* String.prototype.includes
includes(s, sub) == \E i \in 1..(Len(s) + 1) : OccursAt(s, i, sub)

\* \s of a regular expression
IsSpace(c) == c \in { " ", "\t", "\n", "\r" }

\* The characters from index i on that satisfy Class: how many.
RunFrom(s, i, Class(_)) ==
    IF i > Len(s) THEN 0
    ELSE (CHOOSE j \in i..(Len(s) + 1) :
            /\ \A k \in i..(j - 1) : Class(s[k])
            /\ j = Len(s) + 1 \/ ~Class(s[j])) - i

\* String.prototype.trim
trim(s) ==
    LET first == 1 + RunFrom(s, 1, IsSpace)
        ends  == { j \in first..Len(s) : ~IsSpace(s[j]) }
    IN  IF ends = {} THEN <<>>
        ELSE SubSeq(s, first, CHOOSE j \in ends : \A k \in ends : k <= j)

\* ------------------------------------------------------------- dates
\* Date.prototype.toISOString: the UTC calendar fields of a time value
\* (the proleptic Gregorian calendar, as ECMAScript's YearFromTime,
\* MonthFromTime and DateFromTime compute them).
toISOStringSecondsOnly(date) ==
    LET z    == date.day + 719468
        era  == z \div 146097
        doe  == z - era * 146097
        yoe  == (doe - doe \div 1460 + doe \div 36524 - doe \div 146096) \div 365
        doy  == doe - (365 * yoe + yoe \div 4 - yoe \div 100)
        mp   == (5 * doy + 2) \div 153
        d    == doy - (153 * mp + 2) \div 5 + 1
        m    == IF mp < 10 THEN mp + 3 ELSE mp - 9
        y    == yoe + era * 400 + (IF m <= 2 THEN 1 ELSE 0)
    IN  << y, m, d,
           date.ms \div 3600000,
           (date.ms \div 60000) % 60,
           (date.ms \div 1000) % 60,
           0 >>

toISOString(date) ==
    LET z    == date.day + 719468
        era  == z \div 146097
        doe  == z - era * 146097
        yoe  == (doe - doe \div 1460 + doe \div 36524 - doe \div 146096) \div 365
        doy  == doe - (365 * yoe + yoe \div 4 - yoe \div 100)
        mp   == (5 * doy + 2) \div 153
        d    == doy - (153 * mp + 2) \div 5 + 1
        m    == IF mp < 10 THEN mp + 3 ELSE mp - 9
        y    == yoe + era * 400 + (IF m <= 2 THEN 1 ELSE 0)
    IN  << y, m, d,
           date.ms \div 3600000,
           (date.ms \div 60000) % 60,
           (date.ms \div 1000) % 60,
           date.ms % 1000 >>

\* new Date(isoString): the time value of the UTC fields (ECMAScript's
\* MakeDay and MakeTime).
DateFromISO(iso) ==
    LET y    == iso[1] - (IF iso[2] <= 2 THEN 1 ELSE 0)
        era  == y \div 400
        yoe  == y - era * 400
        mp   == IF iso[2] > 2 THEN iso[2] - 3 ELSE iso[2] + 9
        doy  == (153 * mp + 2) \div 5 + iso[3] - 1
        doe  == yoe * 365 + yoe \div 4 - yoe \div 100 + doy
    IN  [ day |-> era * 146097 + doe - 719468,
          ms  |-> iso[4] * 3600000 + iso[5] * 60000 + iso[6] * 1000 + iso[7] ]

\* ------------------------------------------------------------- JSON strings
\* JSON.stringify of a string: the characters between the quotes, with the
\* quote, the backslash and the line feed escaped.
JsonEscapeChar(c) ==
    IF c = "\"" THEN << "\\", "\"" >>
    ELSE IF c = "\\" THEN << "\\", "\\" >>
    ELSE IF c = "\n" THEN << "\\", "n" >>
    ELSE << c >>

JsonQuoteUnescaped(s) == << "\"" >> \o s \o << "\"" >>

JsonQuote(s) == << "\"" >> \o Concat(SeqMap(JsonEscapeChar, s)) \o << "\"" >>

RECURSIVE JsonUnescape(_)
\* JSON.parse of the characters between the quotes of a string token.
JsonUnescape(t) ==
    IF t = <<>> THEN <<>>
    ELSE IF Head(t) = "\\" /\ Len(t) >= 2
         THEN << (IF t[2] = "n" THEN "\n" ELSE t[2]) >> \o JsonUnescape(Tail(Tail(t)))
         ELSE << Head(t) >> \o JsonUnescape(Tail(t))

\* A string token is well formed when it is quoted and its closing quote is
\* the first unescaped quote after the opening one.
RECURSIVE ClosesAtEnd(_)
ClosesAtEnd(t) ==
    IF t = <<>> THEN FALSE
    ELSE IF Head(t) = "\\" THEN Len(t) >= 2 /\ ClosesAtEnd(Tail(Tail(t)))
    ELSE IF Head(t) = "\"" THEN Len(t) = 1
    ELSE ClosesAtEnd(Tail(t))

JsonTokenOk(tok) == Len(tok) >= 2 /\ Head(tok) = "\"" /\ ClosesAtEnd(Tail(tok))

JsonUnquote(tok) == JsonUnescape(SubSeq(tok, 2, Len(tok) - 1))

\* ------------------------------------------------------------- records
\* The Documents callers hand to the adapter, by id and by shape: a plain
\* one with an empty content, no tag and a creation date before 1970, and
\* one whose strings hold the characters JSON escapes, with a repeated tag,
\* an empty tag and dates around the last millisecond of a leap day.
DocVariants == {"plain", "escaped"}

SampleDocument(id, v) ==
    IF v = "plain"
    THEN [ id |-> id, title |-> << "U" >>, content |-> <<>>, tags |-> <<>>,
           createdAt |-> [day |-> 0 - 1, ms |-> 999],
           updatedAt |-> [day |-> 20397, ms |-> 0] ]
    ELSE [ id |-> id, title |-> << "a", "\"", "\\" >>, content |-> << "\n", "\\", "n" >>,
           tags |-> << << "t" >>, << "t" >>, << "\"" >>, <<>> >>,
           createdAt |-> [day |-> 11016, ms |-> 86399999],
           updatedAt |-> [day |-> 11017, ms |-> 1] ]

Documents == { SampleDocument(id, v) : id \in DocIds, v \in DocVariants }

TodoVariants == {"pending", "completed"}

SampleTodo(id, v) ==
    IF v = "pending"
    THEN [ id |-> id, content |-> << "c" >>, status |-> "pending", priority |-> "medium",
           createdAt |-> [day |-> 20397, ms |-> 1], updatedAt |-> [day |-> 20397, ms |-> 1] ]
    ELSE [ id |-> id, content |-> << "\"", "c" >>, status |-> "completed", priority |-> "high",
           createdAt |-> [day |-> 20397, ms |-> 1], updatedAt |-> [day |-> 20398, ms |-> 59999] ]

TodoItems == { SampleTodo(id, v) : id \in TodoIds, v \in TodoVariants }

\* ------------------------------------------------------------- the blob
\* private data = { documents: [], todos: [] }
EmptyData == [ documents |-> <<>>, todos |-> <<>> ]

\* localStorage.getItem(STORAGE_KEY) of a store that was never written: null.
NullItem == [ present |-> FALSE, wellFormed |-> TRUE, documents |-> <<>>, todos |-> <<>> ]

\* A stored string that is no JSON text.
CorruptItem == [ present |-> TRUE, wellFormed |-> FALSE, documents |-> <<>>, todos |-> <<>> ]

\* JSON.stringify(this.data): every string becomes a quoted, escaped token
\* (an ISO date string and an enumeration value hold no character to escape).
StringifyDoc(d) ==
    [ id |-> d.id, title |-> JsonQuote(d.title), content |-> JsonQuote(d.content),
      tags |-> SeqMap(JsonQuote, d.tags), createdAt |-> d.createdAt, updatedAt |-> d.updatedAt ]

StringifyTodo(t) ==
    [ id |-> t.id, content |-> JsonQuote(t.content), status |-> t.status,
      priority |-> t.priority, createdAt |-> t.createdAt, updatedAt |-> t.updatedAt ]

JSONstringify(data) ==
    [ present |-> TRUE, wellFormed |-> TRUE,
      documents |-> SeqMap(StringifyDoc, data.documents),
      todos |-> SeqMap(StringifyTodo, data.todos) ]

\* JSON.parse throws a SyntaxError on a text that is no JSON.
JSONparseThrows(item) ==
    \/ ~item.wellFormed
    \/ \E i \in 1..Len(item.documents) :
          \/ ~JsonTokenOk(item.documents[i].title)
          \/ ~JsonTokenOk(item.documents[i].content)
          \/ \E j \in 1..Len(item.documents[i].tags) : ~JsonTokenOk(item.documents[i].tags[j])
    \/ \E i \in 1..Len(item.todos) : ~JsonTokenOk(item.todos[i].content)

ParseDoc(d) ==
    [ id |-> d.id, title |-> JsonUnquote(d.title), content |-> JsonUnquote(d.content),
      tags |-> SeqMap(JsonUnquote, d.tags), createdAt |-> d.createdAt, updatedAt |-> d.updatedAt ]

ParseTodo(t) ==
    [ id |-> t.id, content |-> JsonUnquote(t.content), status |-> t.status,
      priority |-> t.priority, createdAt |-> t.createdAt, updatedAt |-> t.updatedAt ]

JSONparse(item) ==
    [ documents |-> SeqMap(ParseDoc, item.documents),
      todos |-> SeqMap(ParseTodo, item.todos) ]

\* ------------------------------------------------------------- ExcelStorage
\* loadData(): this.data is replaced by the parsed blob when an item is
\* stored, and kept otherwise; JSON.parse's exception is not caught, and
\* leaves this.data as it was.
loadDataEmpty(item, data) ==
    IF item.present /\ JSONparseThrows(item)
    THEN [ threw |-> TRUE, data |-> data ]
    ELSE [ threw |-> FALSE, data |-> EmptyData ]

loadData(item, data) ==
    IF item.present
    THEN IF JSONparseThrows(item)
         THEN [ threw |-> TRUE, data |-> data ]
         ELSE [ threw |-> FALSE, data |-> JSONparse(item) ]
    ELSE [ threw |-> FALSE, data |-> data ]

\* saveData(): localStorage.setItem's exception (quota exceeded, storage
\* unavailable) is not caught, and leaves the stored item as it was.
saveDataSwallows(item, data, setItemThrows) ==
    IF setItemThrows
    THEN [ threw |-> FALSE, item |-> item ]
    ELSE [ threw |-> FALSE, item |-> JSONstringify(data) ]

saveData(item, data, setItemThrows) ==
    IF setItemThrows
    THEN [ threw |-> TRUE, item |-> item ]
    ELSE [ threw |-> FALSE, item |-> JSONstringify(data) ]

\* Array.prototype.findIndex on the id: the first index, 0 for none (-1).
findIndex(recs, id) ==
    IF \E i \in 1..Len(recs) : recs[i].id = id
    THEN CHOOSE i \in 1..Len(recs) :
            /\ recs[i].id = id
            /\ \A j \in 1..(i - 1) : recs[j].id # id
    ELSE 0

\* recs[existingIndex] = rec when the id is found, recs.push(rec) otherwise.
UpsertAlwaysPush(recs, rec) == Append(recs, rec)

Upsert(recs, rec) ==
    LET existingIndex == findIndex(recs, rec.id)
    IN  IF existingIndex >= 1
        THEN [ recs EXCEPT ![existingIndex] = rec ]
        ELSE Append(recs, rec)

\* recs.filter(r => r.id !== id)
KeepOnlyMatching(recs, id) == SelectSeq(recs, LAMBDA r : r.id = id)

FilterOut(recs, id) == SelectSeq(recs, LAMBDA r : r.id # id)

\* The record saveDocument stores: the dates as ISO strings.
DocData(document) ==
    [ id |-> document.id, title |-> document.title, content |-> document.content,
      tags |-> document.tags,
      createdAt |-> toISOString(document.createdAt),
      updatedAt |-> toISOString(document.updatedAt) ]

\* The Document getDocument and getAllDocuments build from a record.
DocumentOf(doc) ==
    [ id |-> doc.id, title |-> doc.title, content |-> doc.content, tags |-> doc.tags,
      createdAt |-> DateFromISO(doc.createdAt),
      updatedAt |-> DateFromISO(doc.updatedAt) ]

TodoData(todo) ==
    [ id |-> todo.id, content |-> todo.content, status |-> todo.status,
      priority |-> todo.priority,
      createdAt |-> toISOString(todo.createdAt),
      updatedAt |-> toISOString(todo.updatedAt) ]

TodoItemOf(todo) ==
    [ id |-> todo.id, content |-> todo.content, status |-> todo.status,
      priority |-> todo.priority,
      createdAt |-> DateFromISO(todo.createdAt),
      updatedAt |-> DateFromISO(todo.updatedAt) ]

\* The settled promise of a call: the stored item and this.data after the
\* call's body, whether the promise is resolved or rejected, which call
\* threw, and the value of a resolved promise (a Document | null is
\* <<document>> | <<>>).
Rejected(item, data, by) ==
    [ item |-> item, data |-> data, outcome |-> "rejected", threw |-> by, value |-> <<>> ]

Resolved(item, data, value) ==
    [ item |-> item, data |-> data, outcome |-> "resolved", threw |-> "none", value |-> value ]

\* A write: the loaded data is this.data itself, so the change made to it
\* stays in this.data when setItem throws.
WriteBack(item, changed, setItemThrows) ==
    LET saved == saveData(item, changed, setItemThrows)
    IN  IF saved.threw
        THEN Rejected(item, changed, "setItem")
        ELSE Resolved(saved.item, changed, <<>>)

saveDocument(item, data, document, setItemThrows) ==
    LET loaded == loadData(item, data)
    IN  IF loaded.threw
        THEN Rejected(item, data, "JSON.parse")
        ELSE WriteBack(item,
                       [ loaded.data EXCEPT !.documents = Upsert(@, DocData(document)) ],
                       setItemThrows)

getDocument(item, data, id) ==
    LET loaded == loadData(item, data)
        i      == findIndex(loaded.data.documents, id)
    IN  IF loaded.threw
        THEN Rejected(item, data, "JSON.parse")
        ELSE Resolved(item, loaded.data,
                      IF i = 0 THEN <<>> ELSE << DocumentOf(loaded.data.documents[i]) >>)

getAllDocumentsReversed(item, data) ==
    LET loaded == loadData(item, data)
        n      == Len(loaded.data.documents)
    IN  IF loaded.threw
        THEN Rejected(item, data, "JSON.parse")
        ELSE Resolved(item, loaded.data,
                      [ i \in 1..n |-> DocumentOf(loaded.data.documents[n + 1 - i]) ])

getAllDocuments(item, data) ==
    LET loaded == loadData(item, data)
    IN  IF loaded.threw
        THEN Rejected(item, data, "JSON.parse")
        ELSE Resolved(item, loaded.data, SeqMap(DocumentOf, loaded.data.documents))

\* searchDocuments with a query that is not put in lower case.
searchDocumentsCaseSensitive(item, data, query) ==
    LET all == getAllDocuments(item, data)
    IN  IF all.outcome = "rejected" THEN all
        ELSE Resolved(all.item, all.data,
                 SelectSeq(all.value,
                           LAMBDA doc :
                             \/ includes(toLowerCase(doc.title), query)
                             \/ includes(toLowerCase(doc.content), query)
                             \/ \E k \in 1..Len(doc.tags) :
                                   includes(toLowerCase(doc.tags[k]), query)))

searchDocuments(item, data, query) ==
    LET all == getAllDocuments(item, data)
    IN  IF all.outcome = "rejected" THEN all
        ELSE Resolved(all.item, all.data,
                 SelectSeq(all.value,
                           LAMBDA doc :
                             \/ includes(toLowerCase(doc.title), toLowerCase(query))
                             \/ includes(toLowerCase(doc.content), toLowerCase(query))
                             \/ \E k \in 1..Len(doc.tags) :
                                   includes(toLowerCase(doc.tags[k]), toLowerCase(query))))

deleteDocument(item, data, id, setItemThrows) ==
    LET loaded == loadData(item, data)
    IN  IF loaded.threw
        THEN Rejected(item, data, "JSON.parse")
        ELSE WriteBack(item,
                       [ loaded.data EXCEPT !.documents = FilterOut(@, id) ],
                       setItemThrows)

saveTodo(item, data, todo, setItemThrows) ==
    LET loaded == loadData(item, data)
    IN  IF loaded.threw
        THEN Rejected(item, data, "JSON.parse")
        ELSE WriteBack(item,
                       [ loaded.data EXCEPT !.todos = Upsert(@, TodoData(todo)) ],
                       setItemThrows)

getAllTodos(item, data) ==
    LET loaded == loadData(item, data)
    IN  IF loaded.threw
        THEN Rejected(item, data, "JSON.parse")
        ELSE Resolved(item, loaded.data, SeqMap(TodoItemOf, loaded.data.todos))

deleteTodo(item, data, id, setItemThrows) ==
    LET loaded == loadData(item, data)
    IN  IF loaded.threw
        THEN Rejected(item, data, "JSON.parse")
        ELSE WriteBack(item,
                       [ loaded.data EXCEPT !.todos = FilterOut(@, id) ],
                       setItemThrows)

\* updateTodo(todo): await this.saveTodo(todo)
updateTodo(item, data, todo, setItemThrows) == saveTodo(item, data, todo, setItemThrows)

\* ------------------------------------------------------------- state
VARIABLES
    localStorage,   \* the item stored under STORAGE_KEY
    data,           \* storageService's this.data
    last,           \* the call issued last, with its settled promise
    saves,          \* the Documents saved so far, while nothing else was written
    state,          \* the NotepadState of the NotepadProvider's useReducer
    now,            \* the clock new Date() reads, in ticks
    lastAction,     \* the action dispatched last
    messages,       \* the chat's messages
    isLoading,      \* the chat waits for the assistant's reply
    currentInput,   \* the user's message of the chat turn in flight
    turn,           \* the chat turn completed last, with what it created
    unmounted,      \* the chats unmounted: their messages, and the one in flight
    editor,         \* the Editor's title and content, and its pending timeout
    tasks,          \* the tasks of ProjectManagement
    draggedTask,    \* the task being dragged on the Kanban board
    lastDrop,       \* the drop handled last: the task dragged and the column
    timer,          \* the TimerState of the PomodoroTimer
    page,           \* the route shown: Layout's or another one
    effects,        \* the handler that ran last, with its writes and dispatches in order
    failed,         \* a write of the store has failed
    todoList        \* the TodoList's todos

storageVars == << localStorage, data, last, saves >>

storeVars == << state, now, lastAction >>

chatVars == << messages, isLoading, currentInput, turn, unmounted >>

editorVars == << editor >>

kanbanVars == << tasks, draggedTask, lastDrop >>

pomodoroVars == << timer >>

notesVars == << page, effects, failed >>

todoListVars == << todoList >>

\* The components' own state.
uiVars == << chatVars, editorVars, kanbanVars, pomodoroVars, notesVars, todoListVars >>

vars == << effects, localStorage, data, last, saves, state, now,
           messages, isLoading, currentInput, unmounted, turn, editor, tasks, draggedTask,
           lastDrop,
           timer, page, failed, todoList, lastAction >>

NoCall ==
    [ op |-> "none", id |-> 0, arg |-> <<>>, outcome |-> "resolved", threw |-> "none",
      value |-> <<>>, setItemThrows |-> FALSE, awaited |-> TRUE, overlapped |-> FALSE ]

WriteOps == { "saveDocument", "deleteDocument", "saveTodo", "updateTodo", "deleteTodo" }

DocumentOps == { "saveDocument", "deleteDocument" }

\* A write is issued while the write before it has a resolved promise and
\* a caller that has not resumed yet: the two calls are issued without
\* awaiting each other.
Overlaps(op) ==
    op \in WriteOps /\ last.op \in WriteOps /\ ~last.awaited /\ last.outcome = "resolved"

\* A call of an async method: its body has no await before its last
\* statement, so it runs to its end when the method is called, and the
\* promise it returns is settled; the caller resumes later (Await).
\* setItemThrows: what localStorage.setItem does if this call reaches it.
Call(op, id, arg, r, setItemThrows) ==
    /\ localStorage' = r.item
    /\ data' = r.data
    /\ last' = [ op |-> op, id |-> id, arg |-> arg, outcome |-> r.outcome,
                 threw |-> r.threw, value |-> r.value, setItemThrows |-> setItemThrows,
                 awaited |-> FALSE, overlapped |-> Overlaps(op) ]
    /\ UNCHANGED << storeVars, uiVars >>

\* saves: extended by a resolved saveDocument of a new id; void after any
\* other write to the documents.
NoSaves == [ valid |-> FALSE, docs |-> <<>> ]

SavesAfterSave(document, r) ==
    IF /\ saves.valid
       /\ r.outcome = "resolved"
       /\ \A i \in 1..Len(saves.docs) : saves.docs[i].id # document.id
    THEN [ saves EXCEPT !.docs = Append(@, document) ]
    ELSE NoSaves

StorageInit ==
    /\ localStorage \in { NullItem, CorruptItem }
    /\ data = EmptyData
    /\ last = NoCall
    /\ saves = [ valid |-> ~localStorage.present, docs |-> <<>> ]

SaveDocument ==
    \E document \in Documents, setItemThrows \in BOOLEAN :
        LET r == saveDocument(localStorage, data, document, setItemThrows)
        IN  /\ Call("saveDocument", document.id, << document >>, r, setItemThrows)
            /\ saves' = SavesAfterSave(document, r)

GetDocument ==
    \E id \in DocIds :
        /\ Call("getDocument", id, <<>>, getDocument(localStorage, data, id), FALSE)
        /\ UNCHANGED saves

GetAllDocuments ==
    /\ Call("getAllDocuments", 0, <<>>, getAllDocuments(localStorage, data), FALSE)
    /\ UNCHANGED saves

\* The queries searchDocuments is called with: the empty one, one in the
\* other case than the title it occurs in, one in the other case than the
\* tag it occurs in, and one that occurs nowhere.
Queries == { <<>>, << "u" >>, << "T" >>, << "z" >> }

SearchDocuments ==
    \E query \in Queries :
        /\ Call("searchDocuments", 0, << query >>,
                searchDocuments(localStorage, data, query), FALSE)
        /\ UNCHANGED saves

DeleteDocument ==
    \E id \in DocIds, setItemThrows \in BOOLEAN :
        /\ Call("deleteDocument", id, <<>>, deleteDocument(localStorage, data, id, setItemThrows),
               setItemThrows)
        /\ saves' = NoSaves

SaveTodo ==
    \E todo \in TodoItems, setItemThrows \in BOOLEAN :
        /\ Call("saveTodo", todo.id, << todo >>, saveTodo(localStorage, data, todo, setItemThrows),
               setItemThrows)
        /\ UNCHANGED saves

UpdateTodo ==
    \E todo \in TodoItems, setItemThrows \in BOOLEAN :
        /\ Call("updateTodo", todo.id, << todo >>, updateTodo(localStorage, data, todo, setItemThrows),
               setItemThrows)
        /\ UNCHANGED saves

GetAllTodos ==
    /\ Call("getAllTodos", 0, <<>>, getAllTodos(localStorage, data), FALSE)
    /\ UNCHANGED saves

DeleteTodo ==
    \E id \in TodoIds, setItemThrows \in BOOLEAN :
        /\ Call("deleteTodo", id, <<>>, deleteTodo(localStorage, data, id, setItemThrows),
               setItemThrows)
        /\ UNCHANGED saves

\* The caller of the last call resumes after its await (callers resume in
\* the order of their calls, so every earlier caller has resumed too).
Await ==
    /\ ~last.awaited
    /\ last' = [ last EXCEPT !.awaited = TRUE ]
    /\ UNCHANGED << localStorage, data, saves >>
    /\ UNCHANGED << storeVars, uiVars >>

\* The page is loaded again: a new ExcelStorage, the stored item kept.
Reload ==
    /\ last.op # "none"
    /\ data' = EmptyData
    /\ last' = NoCall
    /\ UNCHANGED << localStorage, saves >>
    /\ UNCHANGED << storeVars, uiVars >>

Next ==
    \/ SaveDocument
    \/ GetDocument
    \/ GetAllDocuments
    \/ SearchDocuments
    \/ DeleteDocument
    \/ SaveTodo
    \/ UpdateTodo
    \/ GetAllTodos
    \/ DeleteTodo
    \/ Await
    \/ Reload

\* ------------------------------------------------------------- notepadReducer
\* The documents list holds at most MaxDocuments documents.
MaxDocuments == 2

\* activeDocumentId: string | null; an id is 1..NumDocIds.
null == 0

\* new Date() at a tick of the clock: the ticks are the first and the last
\* millisecond of successive days.
NewDate(tick) ==
    [ day |-> 20397 + tick \div 2, ms |-> IF tick % 2 = 0 THEN 0 ELSE 86399999 ]

\* a <= b as instants
DateLE(a, b) == a.day < b.day \/ (a.day = b.day /\ a.ms <= b.ms)

initialState ==
    [ documents |-> <<>>, activeDocumentId |-> null, isPreviewMode |-> FALSE,
      searchQuery |-> <<>> ]

SET_DOCUMENTS(st, payload) == [ st EXCEPT !.documents = payload ]

ADD_DOCUMENT(st, payload) == [ st EXCEPT !.documents = Append(st.documents, payload) ]

UPDATE_DOCUMENT_KeepsTitle(st, payload, date) ==
    [ st EXCEPT !.documents =
        [ i \in 1..Len(st.documents) |->
            IF st.documents[i].id = payload.id
            THEN [ st.documents[i] EXCEPT !.content = payload.content,
                                          !.updatedAt = date ]
            ELSE st.documents[i] ] ]

UPDATE_DOCUMENT(st, payload, date) ==
    [ st EXCEPT !.documents =
        [ i \in 1..Len(st.documents) |->
            IF st.documents[i].id = payload.id
            THEN [ st.documents[i] EXCEPT !.content = payload.content,
                                          !.title = payload.title,
                                          !.updatedAt = date ]
            ELSE st.documents[i] ] ]

DELETE_DOCUMENT_KeepsActive(st, payload) ==
    [ st EXCEPT !.documents = SelectSeq(st.documents, LAMBDA doc : doc.id # payload) ]

DELETE_DOCUMENT_ClearsActive(st, payload) ==
    [ st EXCEPT !.documents = SelectSeq(st.documents, LAMBDA doc : doc.id # payload),
                !.activeDocumentId = null ]

DELETE_DOCUMENT(st, payload) ==
    [ st EXCEPT !.documents = SelectSeq(st.documents, LAMBDA doc : doc.id # payload),
                !.activeDocumentId = IF st.activeDocumentId = payload
                                     THEN null ELSE st.activeDocumentId ]

SET_ACTIVE_DOCUMENT(st, payload) == [ st EXCEPT !.activeDocumentId = payload ]

TOGGLE_PREVIEW_MODE(st) == [ st EXCEPT !.isPreviewMode = ~st.isPreviewMode ]

SET_SEARCH_QUERY(st, payload) == [ st EXCEPT !.searchQuery = payload ]

\* date: what new Date() returns while the reducer runs.
notepadReducer(st, action, date) ==
    CASE action.type = "SET_DOCUMENTS"       -> SET_DOCUMENTS(st, action.payload)
      [] action.type = "ADD_DOCUMENT"        -> ADD_DOCUMENT(st, action.payload)
      [] action.type = "UPDATE_DOCUMENT"     -> UPDATE_DOCUMENT(st, action.payload, date)
      [] action.type = "DELETE_DOCUMENT"     -> DELETE_DOCUMENT(st, action.payload)
      [] action.type = "SET_ACTIVE_DOCUMENT" -> SET_ACTIVE_DOCUMENT(st, action.payload)
      [] action.type = "TOGGLE_PREVIEW_MODE" -> TOGGLE_PREVIEW_MODE(st)
      [] action.type = "SET_SEARCH_QUERY"    -> SET_SEARCH_QUERY(st, action.payload)
      [] OTHER -> st

\* ------------------------------------------------------------- dispatches
\* The Document the sidebar and the chat create at a tick of the clock.
newDoc(id, tick) ==
    [ id |-> id, title |-> << "U" >>, content |-> <<>>, tags |-> <<>>,
      createdAt |-> NewDate(tick), updatedAt |-> NewDate(tick) ]

\* The lists Layout loads from the store: documents saved at tick 0.
LoadedLists ==
    { [ i \in 1..n |-> newDoc(i, 0) ] : n \in 0..(IF NumDocIds < MaxDocuments
                                                   THEN NumDocIds ELSE MaxDocuments) }

\* The titles and contents the editor dispatches.
Edits ==
    { [ title |-> << "T" >>, content |-> << "x" >> ],
      [ title |-> << "U" >>, content |-> << "x", "y" >> ] }

UpdatePayloads == { [ id |-> id, content |-> e.content, title |-> e.title ] :
                    id \in DocIds, e \in Edits }

SearchQueries == { <<>>, << "a" >> }

NoAction == [ type |-> "none" ]

\* dispatch(action): useReducer applies notepadReducer to the current state.
dispatch(action) ==
    /\ state' = notepadReducer(state, action, NewDate(now))
    /\ lastAction' = action

DispatchSetDocuments ==
    \E list \in LoadedLists :
        /\ dispatch([ type |-> "SET_DOCUMENTS", payload |-> list ])
        /\ UNCHANGED << now, storageVars, uiVars >>

DispatchAddDocument ==
    \E id \in DocIds :
        /\ Len(state.documents) < MaxDocuments
        /\ dispatch([ type |-> "ADD_DOCUMENT", payload |-> newDoc(id, now) ])
        /\ UNCHANGED << now, storageVars, uiVars >>

DispatchUpdateDocument ==
    \E payload \in UpdatePayloads :
        /\ dispatch([ type |-> "UPDATE_DOCUMENT", payload |-> payload ])
        /\ UNCHANGED << now, storageVars, uiVars >>

DispatchDeleteDocument ==
    \E id \in DocIds :
        /\ dispatch([ type |-> "DELETE_DOCUMENT", payload |-> id ])
        /\ UNCHANGED << now, storageVars, uiVars >>

DispatchSetActiveDocument ==
    \E id \in DocIds \cup { null } :
        /\ dispatch([ type |-> "SET_ACTIVE_DOCUMENT", payload |-> id ])
        /\ UNCHANGED << now, storageVars, uiVars >>

DispatchTogglePreviewMode ==
    /\ dispatch([ type |-> "TOGGLE_PREVIEW_MODE" ])
    /\ UNCHANGED << now, storageVars, uiVars >>

DispatchSetSearchQuery ==
    \E q \in SearchQueries :
        /\ dispatch([ type |-> "SET_SEARCH_QUERY", payload |-> q ])
        /\ UNCHANGED << now, storageVars, uiVars >>

\* Time passes between two dispatches: the clock is read before the tick
\* (0) or after it (1), and never runs backwards.
Tick ==
    /\ now = 0
    /\ now' = now + 1
    /\ UNCHANGED << state, lastAction >>
    /\ UNCHANGED << storageVars, uiVars >>

StoreNext ==
    \/ DispatchSetDocuments
    \/ DispatchAddDocument
    \/ DispatchUpdateDocument
    \/ DispatchDeleteDocument
    \/ DispatchSetActiveDocument
    \/ DispatchTogglePreviewMode
    \/ DispatchSetSearchQuery
    \/ Tick

StoreInit ==
    /\ state = initialState
    /\ now = 0
    /\ lastAction = NoAction

\* ------------------------------------------------------------- regular expressions
\* The result of String.prototype.match without the g flag: null, or the
\* match with the text of its first group.
NoMatch == [ matched |-> FALSE, group |-> <<>> ]

\* The greatest member of a set of numbers.
Greatest(ns) == CHOOSE n \in ns : \A m \in ns : m <= n

\* [^"'\n]
IsTitleChar(c) == c \notin { "\"", "'", "\n" }

\* [^\n]
IsNotNewline(c) == c # "\n"

\* ["']?([^"'\n]+)["']? at index i: the quote is taken when there is one,
\* and the group is the longest run of the class after it.
QuotedGroup(s, i) ==
    LET from == IF i <= Len(s) /\ s[i] \in { "\"", "'" } THEN i + 1 ELSE i
        n    == RunFrom(s, from, IsTitleChar)
    IN  IF n >= 1
        THEN [ matched |-> TRUE, group |-> SubSeq(s, from, from + n - 1) ]
        ELSE NoMatch

\* \s* followed by the quoted group: the longest run of spaces after which
\* the group matches.
SpacesThenGroup(s, i) ==
    LET ks == { k \in 0..RunFrom(s, i, IsSpace) : QuotedGroup(s, i + k).matched }
    IN  IF ks = {} THEN NoMatch ELSE QuotedGroup(s, i + Greatest(ks))

\* (?:titled|called|named)? and what follows it: with the word when that
\* matches, and without it otherwise.
Keywords == { << "t", "i", "t", "l", "e", "d" >>, << "c", "a", "l", "l", "e", "d" >>,
              << "n", "a", "m", "e", "d" >> }

KeywordThenGroup(s, i) ==
    LET withs == { w \in Keywords : /\ OccursAtIgnoringCase(s, i, w)
                                    /\ SpacesThenGroup(s, i + Len(w)).matched }
    IN  IF withs # {}
        THEN SpacesThenGroup(s, i + Len(CHOOSE w \in withs : TRUE))
        ELSE SpacesThenGroup(s, i)

Verbs == { << "c", "r", "e", "a", "t", "e" >>, << "n", "e", "w" >>, << "a", "d", "d" >> }

\* (?:create|new|add)\s+noun\s+ at index i: the indexes at which the rest
\* of the pattern may start, one for every length of the second \s+.
AfterVerbAndNoun(s, i, noun) ==
    UNION { UNION { { i + Len(v) + k1 + Len(noun) + k2 :
                        k2 \in 1..RunFrom(s, i + Len(v) + k1 + Len(noun), IsSpace) } :
                    k1 \in { k \in 1..RunFrom(s, i + Len(v), IsSpace) :
                               OccursAtIgnoringCase(s, i + Len(v) + k, noun) } } :
            v \in { w \in Verbs : OccursAtIgnoringCase(s, i, w) } }

\* The match that starts at index i: the longest \s+ after which the rest
\* of the pattern matches.
MatchAt(s, i, noun, Rest(_, _)) ==
    LET js == { j \in AfterVerbAndNoun(s, i, noun) : Rest(s, j).matched }
    IN  IF js = {} THEN NoMatch ELSE Rest(s, Greatest(js))

\* The match of a pattern in s: the one that starts first.
FirstMatch(s, At(_, _)) ==
    LET starts == { i \in 1..Len(s) : At(s, i).matched }
    IN  IF starts = {} THEN NoMatch
        ELSE At(s, CHOOSE i \in starts : \A k \in starts : i <= k)

\* /(?:create|new|add)\s+document\s+(?:titled|called|named)?\s*["']?([^"'\n]+)["']?/i
DocumentAt(s, i) ==
    MatchAt(s, i, << "d", "o", "c", "u", "m", "e", "n", "t" >>, KeywordThenGroup)

titleMatch(userInput) == FirstMatch(userInput, DocumentAt)

\* /(?:create|add|new)\s+todo\s+["']?([^"'\n]+)["']?/i
TodoAt(s, i) == MatchAt(s, i, << "t", "o", "d", "o" >>, QuotedGroup)

\* /remind me to\s+([^\n]+)/i
RemindAt(s, i) ==
    LET phrase == << "r", "e", "m", "i", "n", "d", " ", "m", "e", " ", "t", "o" >>
        from   == i + Len(phrase)
        ks     == { k \in 1..RunFrom(s, from, IsSpace) :
                      RunFrom(s, from + k, IsNotNewline) >= 1 }
        start  == from + Greatest(ks)
    IN  IF OccursAtIgnoringCase(s, i, phrase) /\ ks # {}
        THEN [ matched |-> TRUE,
               group |-> SubSeq(s, start, start + RunFrom(s, start, IsNotNewline) - 1) ]
        ELSE NoMatch

\* userInput.match(create|add|new todo ...) || userInput.match(remind me to ...)
todoMatch(userInput) ==
    IF FirstMatch(userInput, TodoAt).matched
    THEN FirstMatch(userInput, TodoAt)
    ELSE FirstMatch(userInput, RemindAt)

\* ------------------------------------------------------------- the chat's commands
\* createDocument(title): the document is announced to the store, then
\* saved; a rejected save rejects createDocument after the announcement.
\* id: Date.now() at the call; date: new Date() at the call.
Created(st, dispatched, saved, value) ==
    [ state |-> st, dispatched |-> dispatched,
      item |-> saved.item, data |-> saved.data, outcome |-> saved.outcome,
      threw |-> saved.threw, value |-> value ]

\* createDocument saving first, and dispatching once the save resolved.
createDocumentSavedFirst(st, item, dat, title, id, date, setItemThrows) ==
    LET newDocument == [ id |-> id, title |-> title, content |-> <<>>, tags |-> <<>>,
                         createdAt |-> date, updatedAt |-> date ]
        action      == [ type |-> "ADD_DOCUMENT", payload |-> newDocument ]
        saved       == saveDocument(item, dat, newDocument, setItemThrows)
    IN  IF saved.outcome = "rejected"
        THEN Created(st, << action >>, saved, newDocument)
        ELSE Created(notepadReducer(st, action, date), << action >>, saved, newDocument)

createDocument(st, item, dat, title, id, date, setItemThrows) ==
    LET newDocument == [ id |-> id, title |-> title, content |-> <<>>, tags |-> <<>>,
                         createdAt |-> date, updatedAt |-> date ]
        action      == [ type |-> "ADD_DOCUMENT", payload |-> newDocument ]
    IN  Created(notepadReducer(st, action, date), << action >>,
                saveDocument(item, dat, newDocument, setItemThrows), newDocument)

\* createTodo(text, priority): the todo is saved, not announced.
createTodo(st, item, dat, text, priority, id, date, setItemThrows) ==
    LET newTodo == [ id |-> id, content |-> text, status |-> "pending",
                     priority |-> priority, createdAt |-> date, updatedAt |-> date ]
    IN  Created(st, <<>>, saveTodo(item, dat, newTodo, setItemThrows), newTodo)

DocumentTriggers ==
    { << "c", "r", "e", "a", "t", "e", " ", "d", "o", "c", "u", "m", "e", "n", "t" >>,
      << "n", "e", "w", " ", "d", "o", "c", "u", "m", "e", "n", "t" >>,
      << "a", "d", "d", " ", "d", "o", "c", "u", "m", "e", "n", "t" >> }

TodoTriggers ==
    { << "c", "r", "e", "a", "t", "e", " ", "t", "o", "d", "o" >>,
      << "a", "d", "d", " ", "t", "o", "d", "o" >>,
      << "n", "e", "w", " ", "t", "o", "d", "o" >>,
      << "r", "e", "m", "i", "n", "d", " ", "m", "e" >> }

\* 'high' when the message mentions urgent or important, 'low' when it
\* mentions low priority, 'medium' otherwise.
priorityOfLowFirst(lowerInput) ==
    IF includes(lowerInput, << "l", "o", "w", " ", "p", "r", "i", "o", "r", "i", "t", "y" >>)
    THEN "low"
    ELSE IF \/ includes(lowerInput, << "u", "r", "g", "e", "n", "t" >>)
            \/ includes(lowerInput, << "i", "m", "p", "o", "r", "t", "a", "n", "t" >>)
         THEN "high" ELSE "medium"

priorityOf(lowerInput) ==
    IF \/ includes(lowerInput, << "u", "r", "g", "e", "n", "t" >>)
       \/ includes(lowerInput, << "i", "m", "p", "o", "r", "t", "a", "n", "t" >>)
    THEN "high"
    ELSE IF includes(lowerInput, << "l", "o", "w", " ", "p", "r", "i", "o", "r", "i", "t", "y" >>)
         THEN "low" ELSE "medium"

\* The replies processAICommands builds ([U+2705] is the check mark).
documentReply(title) ==
    << "[U+2705] I've created a new document titled \"" >> \o title
       \o << "\" for you! You can find it in your documents list." >>

todoReply(todoText, priority) ==
    << "[U+2705] I've added \"" >> \o todoText
       \o << "\" to your todo list with ", priority,
             " priority! You can view it in the Todo section." >>

\* What a call of processAICommands leaves: the store's state and the
\* action dispatched, the stored item and this.data, the settled promise
\* (the reply when resolved) and the objects it built.
Turn(st, dispatched, item, dat, outcome, threw, reply, document, todo) ==
    [ state |-> st, dispatched |-> dispatched, item |-> item, data |-> dat,
      outcome |-> outcome, threw |-> threw, reply |-> reply,
      document |-> document, todo |-> todo ]

\* The command processAICommands finds in the user's message: a document
\* to create when a document trigger is there and the title pattern
\* matches, else a todo to create when a todo trigger is there and a todo
\* pattern matches, else none.
commandTodoFirst(userInput) ==
    LET lowerInput == toLowerCase(userInput)
    IN  IF /\ \E t \in TodoTriggers : includes(lowerInput, t)
           /\ todoMatch(userInput).matched
        THEN [ kind |-> "todo", todoText |-> trim(todoMatch(userInput).group),
               priority |-> priorityOf(lowerInput) ]
        ELSE IF /\ \E t \in DocumentTriggers : includes(lowerInput, t)
                /\ titleMatch(userInput).matched
             THEN [ kind |-> "document", title |-> trim(titleMatch(userInput).group) ]
             ELSE [ kind |-> "none" ]

commandDefaultTitle(userInput) ==
    LET lowerInput == toLowerCase(userInput)
    IN  IF \E t \in DocumentTriggers : includes(lowerInput, t)
        THEN [ kind |-> "document",
               title |-> IF titleMatch(userInput).matched
                         THEN trim(titleMatch(userInput).group)
                         ELSE << "U", "n", "t", "i", "t", "l", "e", "d" >> ]
        ELSE IF /\ \E t \in TodoTriggers : includes(lowerInput, t)
                /\ todoMatch(userInput).matched
             THEN [ kind |-> "todo", todoText |-> trim(todoMatch(userInput).group),
                    priority |-> priorityOf(lowerInput) ]
             ELSE [ kind |-> "none" ]

command(userInput) ==
    LET lowerInput == toLowerCase(userInput)
    IN  IF /\ \E t \in DocumentTriggers : includes(lowerInput, t)
           /\ titleMatch(userInput).matched
        THEN [ kind |-> "document", title |-> trim(titleMatch(userInput).group) ]
        ELSE IF /\ \E t \in TodoTriggers : includes(lowerInput, t)
                /\ todoMatch(userInput).matched
             THEN [ kind |-> "todo", todoText |-> trim(todoMatch(userInput).group),
                    priority |-> priorityOf(lowerInput) ]
             ELSE [ kind |-> "none" ]

\* The turn in which the document, or the todo, was created: the reply
\* is returned when the save resolved.
documentTurn(doc, title) ==
    Turn(doc.state, doc.dispatched, doc.item, doc.data, doc.outcome, doc.threw,
         IF doc.outcome = "resolved" THEN documentReply(title) ELSE <<>>,
         << doc.value >>, <<>>)

todoTurn(todo, todoText, priority) ==
    Turn(todo.state, todo.dispatched, todo.item, todo.data, todo.outcome, todo.threw,
         IF todo.outcome = "resolved" THEN todoReply(todoText, priority) ELSE <<>>,
         <<>>, << todo.value >>)

processAICommandsOfReply(st, item, dat, cmd, aiResponse, id, date, setItemThrows) ==
    IF cmd.kind = "document"
    THEN documentTurn(createDocument(st, item, dat, cmd.title, id, date, setItemThrows),
                      cmd.title)
    ELSE IF command(aiResponse).kind = "document"
    THEN documentTurn(createDocument(st, item, dat, command(aiResponse).title, id, date,
                                     setItemThrows),
                      command(aiResponse).title)
    ELSE Turn(st, <<>>, item, dat, "resolved", "none", aiResponse, <<>>, <<>>)

\* processAICommands(userInput, aiResponse), cmd being command(userInput).
processAICommands(st, item, dat, cmd, aiResponse, id, date, setItemThrows) ==
    CASE cmd.kind = "document" ->
           documentTurn(createDocument(st, item, dat, cmd.title, id, date, setItemThrows),
                        cmd.title)
      [] cmd.kind = "todo" ->
           todoTurn(createTodo(st, item, dat, cmd.todoText, cmd.priority, id, date,
                               setItemThrows),
                    cmd.todoText, cmd.priority)
      [] OTHER -> Turn(st, <<>>, item, dat, "resolved", "none", aiResponse, <<>>, <<>>)

\* ------------------------------------------------------------- the chat
\* The messages the user sends: the document and todo commands of the
\* assistant's system prompt, in their shapes, among other messages.
UserInputs ==
    { << "c", "r", "e", "a", "t", "e", " ", "d", "o", "c", "u", "m", "e", "n", "t", " ",
        "t", "i", "t", "l", "e", "d", " ", "P", "r", "o", "j", "e", "c", "t", " ", "P",
        "l", "a", "n" >>,
      << "r", "e", "m", "i", "n", "d", " ", "m", "e", " ", "t", "o", " ", "c", "a", "l",
        "l", " ", "t", "h", "e", " ", "d", "e", "n", "t", "i", "s", "t" >>,
      << "r", "e", "m", "i", "n", "d", " ", "m", "e", " ", "t", "o", " ", "s", "u", "b",
        "m", "i", "t", " ", "t", "h", "e", " ", "u", "r", "g", "e", "n", "t", " ", "r",
        "e", "p", "o", "r", "t" >>,
      << "w", "h", "a", "t", " ", "i", "s", " ", "a", " ", "m", "o", "n", "a", "d" >>,
      << "N", "e", "w", " ", "D", "o", "c", "u", "m", "e", "n", "t", " ", "c", "a", "l",
        "l", "e", "d", " ", "'", "N", "o", "t", "e", "s", "'", " ", "a", "n", "d", " ",
        "r", "e", "m", "i", "n", "d", " ", "m", "e", " ", "t", "o", " ", "r", "e", "s",
        "t" >>,
      << "r", "e", "m", "i", "n", "d", " ", "m", "e", " ", "t", "o", " ", "c", "r", "e",
        "a", "t", "e", " ", "d", "o", "c", "u", "m", "e", "n", "t" >>,
      << "c", "r", "e", "a", "t", "e", " ", "d", "o", "c", "u", "m", "e", "n", "t" >>,
      << "a", "d", "d", " ", "t", "o", "d", "o", " ", "\"", "I", "M", "P", "O", "R", "T",
        "A", "N", "T", " ", "l", "o", "w", " ", "p", "r", "i", "o", "r", "i", "t", "y",
        "\"" >>,
      << "a", "d", "d", " ", "t", "o", "d", "o", " ", "l", "o", "w", " ", "p", "r", "i",
        "o", "r", "i", "t", "y", " ", "c", "h", "o", "r", "e", "s" >>,
      << " ", " ", " " >> }

\* data.choices[0].message.content of a successful call: a plain reply, and
\* one that holds a document command itself.
AiResponses ==
    { << "S", "u", "r", "e", "." >>,
      << "c", "r", "e", "a", "t", "e", " ", "d", "o", "c", "u", "m", "e", "n", "t", " ",
        "t", "i", "t", "l", "e", "d", " ", "S", "p", "a", "m" >> }

\* The message of the TypeError a fetch that cannot reach the service
\* rejects with: Chromium's, Firefox's and Safari's.
FetchFailures ==
    { << "F", "a", "i", "l", "e", "d", " ", "t", "o", " ", "f", "e", "t", "c", "h" >>,
      << "N", "e", "t", "w", "o", "r", "k", "E", "r", "r", "o", "r", " ", "w", "h", "e",
        "n", " ", "a", "t", "t", "e", "m", "p", "t", "i", "n", "g", " ", "t", "o", " ",
        "f", "e", "t", "c", "h", " ", "r", "e", "s", "o", "u", "r", "c", "e", "." >>,
      << "L", "o", "a", "d", " ", "f", "a", "i", "l", "e", "d" >> }

\* response.status of a response that is not ok, and the text of its body.
Statuses ==
    { << "4", "0", "1" >>,
      << "4", "2", "9" >>,
      << "5", "0", "0" >> }

ErrorTexts ==
    { <<>>,
      << "u", "p", "s", "t", "r", "e", "a", "m", " ", "4", "0", "1" >>,
      << "C", "O", "R", "S" >> }

\* How the call of the chat API ends: a reply; a fetch that rejects; a
\* response that is not ok; a body that is not the JSON expected.
ApiOutcomes ==
    { [ kind |-> "ok", content |-> c ] : c \in AiResponses }
    \cup { [ kind |-> "network", message |-> m ] : m \in FetchFailures }
    \cup { [ kind |-> "status", status |-> st, errorText |-> t ] :
             st \in Statuses, t \in ErrorTexts }
    \cup { [ kind |-> "malformed" ] }

\* error.message of what the try block throws. A rejected save throws the
\* DOMException of setItem or the SyntaxError of JSON.parse.
apiErrorMessage(api) ==
    CASE api.kind = "network" -> api.message
      [] api.kind = "status" ->
            << "A", "P", "I", " ", "E", "r", "r", "o", "r", ":", " " >> \o api.status
            \o << " ", "-", " " >> \o api.errorText
      [] OTHER -> << "U", "n", "e", "x", "p", "e", "c", "t", "e", "d", " ", "t", "o", "k", "e", "n" >>

saveErrorMessage(threw) ==
    IF threw = "setItem"
    THEN << "T", "h", "e", " ", "q", "u", "o", "t", "a", " ", "h", "a", "s", " ", "b", "e", "e", "n", " ", "e", "x", "c", "e", "e", "d", "e", "d", "." >>
    ELSE << "U", "n", "e", "x", "p", "e", "c", "t", "e", "d", " ", "t", "o", "k", "e", "n" >>

\* The text of the assistant message the catch block appends.
errorContent(message) ==
    IF includes(message, << "F", "a", "i", "l", "e", "d", " ", "t", "o", " ", "f", "e", "t", "c", "h" >>)
    THEN << "Network error: Unable to connect to AI service. Please check your internet connection." >>
    ELSE IF includes(message, << "4", "0", "1" >>)
    THEN << "Authentication error: Invalid API key." >>
    ELSE IF includes(message, << "4", "2", "9" >>)
    THEN << "Rate limit exceeded. Please try again later." >>
    ELSE IF includes(message, << "C", "O", "R", "S" >>)
    THEN << "CORS error: Please check browser console for details." >>
    ELSE << "Sorry, I encountered an error. Please try again." >>

\* The command of every message the user sends, and the assistant message
\* of every failure of the chat API.
Commands == [ u \in UserInputs |-> command(u) ]

ApiErrorContents ==
    [ api \in { a \in ApiOutcomes : a.kind # "ok" } |-> errorContent(apiErrorMessage(api)) ]

\* The chat is followed for two turns: a user and an assistant message each.
MaxMessages == 4

NoTurn ==
    [ userInput |-> <<>>, api |-> [ kind |-> "none" ], setItemThrows |-> FALSE,
      outcome |-> "none", document |-> <<>>, todo |-> <<>> ]

ChatInit ==
    /\ messages = <<>>
    /\ isLoading = FALSE
    /\ currentInput = <<>>
    /\ turn = NoTurn
    /\ unmounted = <<>>

\* The messages followed so far: those of the chat, and those of the chats
\* unmounted with the replies they waited for.
RECURSIVE Followed(_)
Followed(chats) ==
    IF chats = <<>> THEN 0
    ELSE Len(Head(chats).messages) + Len(Head(chats).awaiting) + Followed(Tail(chats))

\* sendMessage without the isLoading of its guard.
SendMessageWhileLoading ==
    \E inputValue \in UserInputs :
        /\ Len(messages) + Followed(unmounted) + 2 <= MaxMessages
        /\ Len(state.documents) < MaxDocuments
        /\ trim(inputValue) # <<>>
        /\ messages' = Append(messages, [ role |-> "user", content |-> inputValue ])
        /\ currentInput' = inputValue
        /\ isLoading' = TRUE
        /\ turn' = NoTurn
        /\ UNCHANGED << unmounted, storeVars, storageVars >>
        /\ UNCHANGED << editorVars, kanbanVars, pomodoroVars, notesVars, todoListVars >>

\* sendMessage, up to its await of the chat API (no image is selected).
SendMessage ==
    \E inputValue \in UserInputs :
        /\ Len(messages) + Followed(unmounted) + 2 <= MaxMessages
        /\ Len(state.documents) < MaxDocuments
        /\ ~(trim(inputValue) = <<>> \/ isLoading)
        /\ messages' = Append(messages, [ role |-> "user", content |-> inputValue ])
        /\ currentInput' = inputValue
        /\ isLoading' = TRUE
        /\ turn' = NoTurn
        /\ UNCHANGED << unmounted, storeVars, storageVars >>
        /\ UNCHANGED << editorVars, kanbanVars, pomodoroVars, notesVars, todoListVars >>

\* sendMessage, from the end of the chat API's call on: the commands are
\* processed, an assistant message is appended, by the catch block when
\* something threw, and isLoading is reset.
\* Date.now() and new Date() read the clock: ids are its readings.
Respond ==
    \E api \in ApiOutcomes :
        /\ isLoading
        /\ IF api.kind = "ok"
           THEN \E setItemThrows \in BOOLEAN :
                  \E r \in { processAICommands(state, localStorage, data,
                                               Commands[currentInput], api.content,
                                               now + 1, NewDate(now), setItemThrows) } :
                      /\ state' = r.state
                      /\ lastAction' = IF r.dispatched = <<>> THEN lastAction
                                       ELSE r.dispatched[1]
                      /\ localStorage' = r.item
                      /\ data' = r.data
                      /\ messages' = Append(messages,
                            [ role |-> "assistant",
                              content |-> IF r.outcome = "resolved" THEN r.reply
                                          ELSE errorContent(saveErrorMessage(r.threw)) ])
                      /\ turn' = [ userInput |-> currentInput, api |-> api,
                                   setItemThrows |-> setItemThrows, outcome |-> r.outcome,
                                   document |-> r.document, todo |-> r.todo ]
           ELSE /\ messages' = Append(messages,
                      [ role |-> "assistant", content |-> ApiErrorContents[api] ])
                /\ turn' = [ userInput |-> currentInput, api |-> api,
                             setItemThrows |-> FALSE, outcome |-> "none",
                             document |-> <<>>, todo |-> <<>> ]
                /\ UNCHANGED << state, lastAction, localStorage, data >>
        /\ isLoading' = FALSE
        /\ currentInput' = <<>>
        /\ UNCHANGED << unmounted, now, last, saves >>
        /\ UNCHANGED << editorVars, kanbanVars, pomodoroVars, notesVars, todoListVars >>

ChatNext ==
    \/ SendMessage
    \/ Respond
    \/ Tick

\* The times the chat is unmounted that the model follows.
MaxUnmounted == 1

\* The messages whose call of the chat API has not ended: the mounted
\* chat's and those of the chats unmounted.
RECURSIVE Awaited(_)
Awaited(chats) ==
    IF chats = <<>> THEN <<>> ELSE Head(chats).awaiting \o Awaited(Tail(chats))

InFlight == ( IF isLoading THEN << currentInput >> ELSE <<>> ) \o Awaited(unmounted)

\* The user leaves the chat by its back button and opens it again from
\* Layout: AIChat is unmounted and mounted anew, with its initial state.
\* Nothing cancels the call of the chat API that the old one awaits.
RemountChat ==
    /\ Len(unmounted) < MaxUnmounted
    /\ messages' = <<>>
    /\ isLoading' = FALSE
    /\ currentInput' = <<>>
    /\ unmounted' = Append(unmounted,
          [ messages |-> messages,
            awaiting |-> IF isLoading THEN << currentInput >> ELSE <<>> ])
    /\ UNCHANGED << turn, storeVars, storageVars >>
    /\ UNCHANGED << editorVars, kanbanVars, pomodoroVars, notesVars, todoListVars >>

\* sendMessage of an unmounted chat, from the end of the chat API's call
\* on: the commands are processed; what it sets, messages and isLoading,
\* is the state of a component that is no longer there.
RespondUnmounted ==
    \E i \in 1..Len(unmounted), api \in ApiOutcomes :
        /\ unmounted[i].awaiting # <<>>
        /\ IF api.kind = "ok"
           THEN \E setItemThrows \in BOOLEAN :
                  \E r \in { processAICommands(state, localStorage, data,
                                               Commands[unmounted[i].awaiting[1]], api.content,
                                               now + 1, NewDate(now), setItemThrows) } :
                      /\ state' = r.state
                      /\ lastAction' = IF r.dispatched = <<>> THEN lastAction
                                       ELSE r.dispatched[1]
                      /\ localStorage' = r.item
                      /\ data' = r.data
                      /\ turn' = [ userInput |-> unmounted[i].awaiting[1], api |-> api,
                                   setItemThrows |-> setItemThrows, outcome |-> r.outcome,
                                   document |-> r.document, todo |-> r.todo ]
           ELSE /\ turn' = [ userInput |-> unmounted[i].awaiting[1], api |-> api,
                             setItemThrows |-> FALSE, outcome |-> "none",
                             document |-> <<>>, todo |-> <<>> ]
                /\ UNCHANGED << state, lastAction, localStorage, data >>
        /\ unmounted' = [ unmounted EXCEPT ![i].awaiting = <<>> ]
        /\ UNCHANGED << messages, isLoading, currentInput, now, last, saves >>
        /\ UNCHANGED << editorVars, kanbanVars, pomodoroVars, notesVars, todoListVars >>

ChatPageNext ==
    \/ SendMessage
    \/ Respond
    \/ RemountChat
    \/ RespondUnmounted

\* ------------------------------------------------------------- the editor
\* state.documents.find(doc => doc.id === state.activeDocumentId): the
\* document, or nothing.
activeDocument(st) == SelectSeq(st.documents, LAMBDA doc : doc.id = st.activeDocumentId)

\* What the editor's inputs are given: titles and contents.
Titles == { << "U" >>, << "T" >> }

Contents == { <<>>, << "x" >> }

\* The timeout holding the document as the state has it, not the text of
\* the render that set it.
TimeoutOfDocument(document, title, content) ==
    << [ activeDocument |-> document, title |-> document.title,
         content |-> document.content ] >>

\* The timeout of the second effect: handleSave with the activeDocument,
\* title and content of the render that set it.
Timeout(document, title, content) ==
    << [ activeDocument |-> document, title |-> title, content |-> content ] >>

\* The editor once its effects have run for a new activeDocument: title
\* and content are the document's, the timeout that was pending is
\* cleared and one is set for the new values; none without a document.
EditorOf(st) ==
    IF activeDocument(st) = <<>>
    THEN [ title |-> <<>>, content |-> <<>>, timeoutId |-> <<>> ]
    ELSE [ title |-> activeDocument(st)[1].title,
           content |-> activeDocument(st)[1].content,
           timeoutId |-> Timeout(activeDocument(st)[1], activeDocument(st)[1].title,
                                 activeDocument(st)[1].content) ]

\* The effects keeping the title and the content of the render before.
RenderedKeepsText(st) ==
    editor' = IF activeDocument(st) = activeDocument(state) THEN editor
              ELSE IF activeDocument(st) = <<>> THEN EditorOf(st)
              ELSE [ editor EXCEPT !.timeoutId = Timeout(activeDocument(st)[1],
                                                         editor.title, editor.content) ]

\* The effects run when activeDocument is another object than before.
Rendered(st) ==
    editor' = IF activeDocument(st) = activeDocument(state) THEN editor ELSE EditorOf(st)

EditorInit == editor = EditorOf(initialState)

\* What a handler did: its name, and its writes of the store and its
\* dispatches in the order it issued them.
Effects(handler, steps) == [ handler |-> handler, steps |-> steps ]

NoEffects == Effects("none", <<>>)

\* The ids in use: those of the documents of the state and of the store,
\* and the active one.
idsInUse(st, item, dat) ==
    { st.documents[i].id : i \in 1..Len(st.documents) }
    \cup { st.activeDocumentId }
    \cup { loadData(item, dat).data.documents[i].id :
             i \in 1..Len(loadData(item, dat).data.documents) }

\* Date.now().toString() as an id: the clock's reading, later than the
\* reading every id in use was made from.
DateNow(st, item, dat) == { id \in DocIds : \A used \in idsInUse(st, item, dat) : used < id }

\* Sidebar's handleCreateDocument: the new document is saved, added and
\* made the active one. Its id is Date.now(), greater than every id so far.
HandleCreateDocument ==
    \E id \in DateNow(state, localStorage, data), setItemThrows \in BOOLEAN :
        \E saved \in { saveDocument(localStorage, data, newDoc(id, now), setItemThrows) } :
            \E st \in { SET_ACTIVE_DOCUMENT(ADD_DOCUMENT(state, newDoc(id, now)), id) } :
                /\ page = "notes"
                /\ Len(state.documents) < MaxDocuments
                /\ localStorage' = saved.item
                /\ data' = saved.data
                /\ failed' = (failed \/ saved.outcome = "rejected")
                /\ IF saved.outcome = "resolved"
                   THEN /\ state' = st
                        /\ lastAction' = [ type |-> "SET_ACTIVE_DOCUMENT", payload |-> id ]
                        /\ Rendered(st)
                        /\ effects' = Effects("handleCreateDocument",
                                              << "saveDocument", "ADD_DOCUMENT",
                                                 "SET_ACTIVE_DOCUMENT" >>)
                   ELSE /\ UNCHANGED << state, lastAction, editor >>
                        /\ effects' = Effects("handleCreateDocument", << "saveDocument" >>)
                /\ UNCHANGED << now, last, saves, chatVars, kanbanVars, pomodoroVars, page, todoListVars >>

\* Sidebar's handleSelectDocument, on a document of the list.
HandleSelectDocument ==
    \E i \in 1..Len(state.documents) :
        /\ page = "notes"
        /\ dispatch([ type |-> "SET_ACTIVE_DOCUMENT", payload |-> state.documents[i].id ])
        /\ Rendered(SET_ACTIVE_DOCUMENT(state, state.documents[i].id))
        /\ effects' = Effects("handleSelectDocument", << "SET_ACTIVE_DOCUMENT" >>)
        /\ UNCHANGED << now, storageVars, chatVars, kanbanVars, pomodoroVars, page, failed, todoListVars >>

\* handleTitleChange and handleContentChange: the user types, the pending
\* timeout is cleared and one is set for the new text.
HandleTitleChange ==
    \E newTitle \in Titles \ { editor.title } :
        /\ page = "notes"
        /\ activeDocument(state) # <<>>
        /\ effects' = Effects("handleTitleChange", <<>>)
        /\ editor' = [ editor EXCEPT
                         !.title = newTitle,
                         !.timeoutId = Timeout(activeDocument(state)[1], newTitle,
                                               editor.content) ]
        /\ UNCHANGED << storeVars, storageVars, chatVars, kanbanVars, pomodoroVars, page, failed, todoListVars >>

HandleContentChange ==
    \E newContent \in Contents \ { editor.content } :
        /\ page = "notes"
        /\ activeDocument(state) # <<>>
        /\ effects' = Effects("handleContentChange", <<>>)
        /\ editor' = [ editor EXCEPT
                         !.content = newContent,
                         !.timeoutId = Timeout(activeDocument(state)[1], editor.title,
                                               newContent) ]
        /\ UNCHANGED << storeVars, storageVars, chatVars, kanbanVars, pomodoroVars, page, failed, todoListVars >>

\* handleSave writing the document as the state has it.
updatedDocWithoutText(timeout, date) == [ timeout.activeDocument EXCEPT !.updatedAt = date ]

\* The document handleSave writes.
updatedDoc(timeout, date) ==
    [ timeout.activeDocument EXCEPT !.title = timeout.title,
                                    !.content = timeout.content,
                                    !.updatedAt = date ]

\* The timeout fires a second after it was set: handleSave saves the
\* document and dispatches UPDATE_DOCUMENT, which makes activeDocument a
\* new object, so that the effects run again.
HandleSave ==
    \E setItemThrows \in { FALSE } :
        /\ editor.timeoutId # <<>>
        /\ \E saved \in { saveDocument(localStorage, data,
                                       updatedDoc(editor.timeoutId[1], NewDate(now)),
                                       setItemThrows) } :
            \E action \in { [ type |-> "UPDATE_DOCUMENT",
                              payload |-> [ id |-> editor.timeoutId[1].activeDocument.id,
                                            content |-> editor.timeoutId[1].content,
                                            title |-> editor.timeoutId[1].title ] ] } :
                /\ localStorage' = saved.item
                /\ data' = saved.data
                /\ failed' = (failed \/ saved.outcome = "rejected")
                /\ IF saved.outcome = "resolved"
                   THEN /\ dispatch(action)
                        /\ editor' = EditorOf(notepadReducer(state, action, NewDate(now)))
                        /\ effects' = Effects("handleSave",
                                              << "saveDocument", "UPDATE_DOCUMENT" >>)
                   ELSE /\ editor' = [ editor EXCEPT !.timeoutId = <<>> ]
                        /\ effects' = Effects("handleSave", << "saveDocument" >>)
                        /\ UNCHANGED << state, lastAction >>
        /\ UNCHANGED << now, last, saves, chatVars, kanbanVars, pomodoroVars, page, todoListVars >>

EditorNext ==
    \/ HandleCreateDocument
    \/ HandleSelectDocument
    \/ HandleTitleChange
    \/ HandleContentChange
    \/ HandleSave
    \/ Tick

\* ------------------------------------------------------------- the Kanban board
\* The ids of tasks: '1' and '2' are the sample tasks', the others are
\* readings of Date.now().
NumTaskIds == 3

TaskIds == 1..NumTaskIds

\* The readings of Date.now(): later than the sample tasks' ids.
DateNowIds == { id \in TaskIds : id > 2 }

\* The columns' statuses.
TaskStatuses == { "todo", "in_progress", "review", "completed" }

\* The values a JavaScript parameter or field may hold, with their types.
undefined == [ type |-> "undefined" ]

StringValue(chars) == [ type |-> "string", value |-> chars ]

DateValue(date) == [ type |-> "Date", value |-> date ]

ObjectValue(fields) == [ type |-> "object", value |-> fields ]

\* a === b: values of different types are never equal.
StrictEquals(a, b) == a.type = b.type /\ ( a.type = "undefined" \/ a.value = b.value )

\* The k-th argument of a call: undefined when fewer were passed.
Argument(arguments, k) == IF k <= Len(arguments) THEN arguments[k] ELSE undefined

\* { ...task, ...updates }: spreading undefined adds nothing.
Spread(task, updates) ==
    IF updates.type # "object" THEN task
    ELSE [ f \in DOMAIN task |->
             IF f \in DOMAIN updates.value THEN updates.value[f] ELSE task[f] ]

\* The tasks ProjectManagement starts with.
sampleTasks(date) ==
    << [ id |-> 1, status |-> "todo", createdAt |-> DateValue(date),
         updatedAt |-> DateValue(date), completedAt |-> undefined ],
       [ id |-> 2, status |-> "in_progress", createdAt |-> DateValue(date),
         updatedAt |-> DateValue(date), completedAt |-> undefined ] >>

\* ProjectManagement's handlers, on the tasks they are applied to.
handleCreateTask(prev, task, id, date) ==
    Append(prev, [ id |-> id, status |-> task.status, completedAt |-> task.completedAt,
                   createdAt |-> StringValue(toISOString(date)),
                   updatedAt |-> StringValue(toISOString(date)) ])

handleUpdateTask(prev, id, updates, date) ==
    [ i \in 1..Len(prev) |->
        IF StrictEquals(StringValue(prev[i].id), id)
        THEN [ Spread(prev[i], updates) EXCEPT !.updatedAt = StringValue(toISOString(date)) ]
        ELSE prev[i] ]

handleDeleteTask(prev, id) ==
    SelectSeq(prev, LAMBDA task : ~StrictEquals(StringValue(task.id), id))

\* The props the board is given: onTaskUpdate is handleUpdateTask, called
\* with the arguments the board passes.
onTaskUpdate(prev, arguments, date) ==
    handleUpdateTask(prev, Argument(arguments, 1), Argument(arguments, 2), date)

onTaskCreate(prev, arguments, id, date) ==
    handleCreateTask(prev, Argument(arguments, 1).value, id, date)

onTaskDelete(prev, arguments) == handleDeleteTask(prev, Argument(arguments, 1))

NoDrop == [ dropped |-> FALSE ]

KanbanInit ==
    /\ tasks = sampleTasks(NewDate(0))
    /\ draggedTask = <<>>
    /\ lastDrop = NoDrop

\* handleDragStart, on a task of the board.
HandleDragStart ==
    \E i \in 1..Len(tasks) :
        /\ draggedTask' = << tasks[i] >>
        /\ UNCHANGED << tasks, lastDrop >>
        /\ UNCHANGED << storeVars, storageVars, chatVars, editorVars, pomodoroVars, notesVars, todoListVars >>

\* The task handleDrop passes to onTaskUpdate.
updatedTask(task, status, date) ==
    [ task EXCEPT !.status = status,
                  !.updatedAt = DateValue(date),
                  !.completedAt = IF status = "completed" THEN DateValue(date) ELSE @ ]

\* handleDrop, on a column.
HandleDrop ==
    \E status \in TaskStatuses :
        /\ draggedTask # <<>>
        /\ tasks' = IF draggedTask[1].status # status
                    THEN onTaskUpdate(tasks,
                            << ObjectValue(updatedTask(draggedTask[1], status,
                                                       NewDate(now))) >>,
                            NewDate(now))
                    ELSE tasks
        /\ draggedTask' = <<>>
        /\ lastDrop' = [ dropped |-> TRUE, task |-> draggedTask[1], status |-> status ]
        /\ UNCHANGED << storeVars, storageVars, chatVars, editorVars, pomodoroVars, notesVars, todoListVars >>

\* The board's handleCreateTask, on a column, with a title typed: the id
\* of the new task is Date.now(), greater than the ids so far.
HandleCreateTask ==
    \E status \in TaskStatuses, id \in DateNowIds :
        /\ \A i \in 1..Len(tasks) : tasks[i].id < id
        /\ tasks' = onTaskCreate(tasks,
                        << ObjectValue([ status |-> status,
                                         completedAt |-> IF status = "completed"
                                                         THEN DateValue(NewDate(now))
                                                         ELSE undefined ]) >>,
                        id, NewDate(now))
        /\ UNCHANGED << draggedTask, lastDrop >>
        /\ UNCHANGED << storeVars, storageVars, chatVars, editorVars, pomodoroVars, notesVars, todoListVars >>

\* The delete button of a task's card.
HandleDeleteTask ==
    \E i \in 1..Len(tasks) :
        /\ tasks' = onTaskDelete(tasks, << StringValue(tasks[i].id) >>)
        /\ UNCHANGED << draggedTask, lastDrop >>
        /\ UNCHANGED << storeVars, storageVars, chatVars, editorVars, pomodoroVars, notesVars, todoListVars >>

KanbanNext ==
    \/ HandleDragStart
    \/ HandleDrop
    \/ HandleCreateTask
    \/ HandleDeleteTask
    \/ Tick

\* ------------------------------------------------------------- the Pomodoro timer
\* The lengths of a work session and of the breaks, in minutes, and the
\* sessions after which the break is a long one.
WorkMinutes == 25

ShortBreakMinutes == 5

LongBreakMinutes == 15

LongBreakEvery == 4

SecondsPerMinute == 60

\* The work sessions that are followed.
MaxSessionCount == 4

\* The timer as it is constructed, and as resetTimer sets it.
initialTimer ==
    [ minutes |-> WorkMinutes, seconds |-> 0, isActive |-> FALSE, isBreak |-> FALSE,
      sessionCount |-> 0 ]

totalSeconds(prevTimer) == prevTimer.minutes * SecondsPerMinute + prevTimer.seconds

\* The update of an interval tick, with the break after every
\* LongBreakEvery-th session of the sessions before this one.
tickByOldCount(prevTimer) ==
    IF totalSeconds(prevTimer) <= 1
    THEN IF prevTimer.isBreak
         THEN [ prevTimer EXCEPT !.minutes = WorkMinutes, !.seconds = 0,
                                 !.isActive = FALSE, !.isBreak = FALSE ]
         ELSE [ prevTimer EXCEPT
                  !.minutes = IF prevTimer.sessionCount % LongBreakEvery = 0
                              THEN LongBreakMinutes ELSE ShortBreakMinutes,
                  !.seconds = 0, !.isActive = FALSE, !.isBreak = TRUE,
                  !.sessionCount = prevTimer.sessionCount + 1 ]
    ELSE [ prevTimer EXCEPT
             !.minutes = (totalSeconds(prevTimer) - 1) \div SecondsPerMinute,
             !.seconds = (totalSeconds(prevTimer) - 1) % SecondsPerMinute ]

\* The update setInterval's callback applies every second.
tick(prevTimer) ==
    IF totalSeconds(prevTimer) <= 1
    THEN IF prevTimer.isBreak
         THEN [ prevTimer EXCEPT !.minutes = WorkMinutes, !.seconds = 0,
                                 !.isActive = FALSE, !.isBreak = FALSE ]
         ELSE [ prevTimer EXCEPT
                  !.minutes = IF (prevTimer.sessionCount + 1) % LongBreakEvery = 0
                              THEN LongBreakMinutes ELSE ShortBreakMinutes,
                  !.seconds = 0, !.isActive = FALSE, !.isBreak = TRUE,
                  !.sessionCount = prevTimer.sessionCount + 1 ]
    ELSE [ prevTimer EXCEPT
             !.minutes = (totalSeconds(prevTimer) - 1) \div SecondsPerMinute,
             !.seconds = (totalSeconds(prevTimer) - 1) % SecondsPerMinute ]

\* The lengths the progress indicator takes a work session and a break to
\* have, in seconds.
WORK_TIME == 25 * 60

BREAK_TIME == 5 * 60

\* The percentage of the progress indicator, of the badge and of the bar:
\* Math.round, the nearest integer, the upper one of two equally near, of
\* the part of the length that has elapsed.
progress(t) ==
    LET length == IF t.isBreak THEN BREAK_TIME ELSE WORK_TIME
    IN  ( 2 * 100 * (length - totalSeconds(t)) + length ) \div ( 2 * length )

PomodoroInit == timer = initialTimer

\* The interval fires: the effect on timer.isActive keeps an interval
\* exactly while the timer is active.
IntervalTick ==
    /\ timer.isActive
    /\ timer' = tick(timer)
    /\ UNCHANGED << storeVars, storageVars, chatVars, editorVars, kanbanVars, notesVars, todoListVars >>

\* startTimer, of the button shown while the timer is not active.
StartTimer ==
    /\ ~timer.isActive
    /\ timer.isBreak \/ timer.sessionCount < MaxSessionCount
    /\ timer' = [ timer EXCEPT !.isActive = TRUE ]
    /\ UNCHANGED << storeVars, storageVars, chatVars, editorVars, kanbanVars, notesVars, todoListVars >>

\* pauseTimer, of the button shown while the timer is active.
PauseTimer ==
    /\ timer.isActive
    /\ timer' = [ timer EXCEPT !.isActive = FALSE ]
    /\ UNCHANGED << storeVars, storageVars, chatVars, editorVars, kanbanVars, notesVars, todoListVars >>

ResetTimer ==
    /\ timer' = initialTimer
    /\ UNCHANGED << storeVars, storageVars, chatVars, editorVars, kanbanVars, notesVars, todoListVars >>

PomodoroNext ==
    \/ IntervalTick
    \/ StartTimer
    \/ PauseTimer
    \/ ResetTimer

\* ------------------------------------------------------------- the notes page
\* Layout, with its Sidebar and its Editor, is the element of the route
\* '/'; the NotepadProvider is above the Router, so that the state
\* outlives the page.
Pages == { "notes", "chat" }

NotesInit ==
    /\ page = "notes"
    /\ effects = NoEffects
    /\ failed = FALSE

\* Sidebar's handleDeleteDocument, on a document of the list: the document
\* is deleted from the store, then from the state.
HandleDeleteDocument ==
    \E i \in 1..Len(state.documents), setItemThrows \in { FALSE } :
        \E deleted \in { deleteDocument(localStorage, data, state.documents[i].id,
                                        setItemThrows) } :
            \E action \in { [ type |-> "DELETE_DOCUMENT",
                              payload |-> state.documents[i].id ] } :
                /\ page = "notes"
                /\ localStorage' = deleted.item
                /\ data' = deleted.data
                /\ failed' = (failed \/ deleted.outcome = "rejected")
                /\ IF deleted.outcome = "resolved"
                   THEN /\ dispatch(action)
                        /\ Rendered(notepadReducer(state, action, NewDate(now)))
                        /\ effects' = Effects("handleDeleteDocument",
                                              << "deleteDocument", "DELETE_DOCUMENT" >>)
                   ELSE /\ UNCHANGED << state, lastAction, editor >>
                        /\ effects' = Effects("handleDeleteDocument",
                                              << "deleteDocument" >>)
                /\ UNCHANGED << now, last, saves, chatVars, kanbanVars, pomodoroVars,
                                page, todoListVars >>

\* Layout's loadDocuments, with the state of the render that mounted
\* Layout: the documents of the store replace those of the state, and the
\* first one is made the active one when the state had none.
loadDocuments(st, item, dat) ==
    LET loaded == getAllDocuments(item, dat)
    IN  IF loaded.outcome = "rejected"
        THEN [ state |-> st, data |-> loaded.data, steps |-> << "getAllDocuments" >> ]
        ELSE IF Len(loaded.value) > 0 /\ st.activeDocumentId = null
        THEN [ state |-> SET_ACTIVE_DOCUMENT(SET_DOCUMENTS(st, loaded.value),
                                             loaded.value[1].id),
               data |-> loaded.data,
               steps |-> << "getAllDocuments", "SET_DOCUMENTS", "SET_ACTIVE_DOCUMENT" >> ]
        ELSE [ state |-> SET_DOCUMENTS(st, loaded.value), data |-> loaded.data,
               steps |-> << "getAllDocuments", "SET_DOCUMENTS" >> ]

\* The action dispatched last when a handler dispatched those steps.
lastDispatched(steps, st) ==
    IF steps[Len(steps)] = "SET_ACTIVE_DOCUMENT"
    THEN [ type |-> "SET_ACTIVE_DOCUMENT", payload |-> st.activeDocumentId ]
    ELSE IF steps[Len(steps)] = "SET_DOCUMENTS"
    THEN [ type |-> "SET_DOCUMENTS", payload |-> st.documents ]
    ELSE lastAction

\* navigate('/ai-chat'), or to another route: Layout is unmounted, the
\* Editor's cleanup clears its timeout and its title and content are gone.
LeaveNotes ==
    /\ page = "notes"
    /\ page' = "chat"
    /\ editor' = EditorOf(initialState)
    /\ effects' = Effects("navigate", <<>>)
    /\ UNCHANGED << storeVars, storageVars, chatVars, kanbanVars, pomodoroVars,
                    failed, todoListVars >>

\* navigate('/'): Layout is mounted and its effect loads the documents;
\* the Editor is mounted with the active document of the state.
EnterNotes ==
    \E r \in { loadDocuments(state, localStorage, data) } :
        /\ page # "notes"
        /\ page' = "notes"
        /\ state' = r.state
        /\ lastAction' = lastDispatched(r.steps, r.state)
        /\ data' = r.data
        /\ editor' = EditorOf(r.state)
        /\ effects' = Effects("loadDocuments", r.steps)
        /\ UNCHANGED << now, localStorage, last, saves, chatVars, kanbanVars,
                        pomodoroVars, failed, todoListVars >>

\* The browser reloads the page: every component starts from its initial
\* state, the adapter from its empty this.data, and on the route '/'
\* Layout loads the documents.
ReloadPage ==
    \E r \in { IF page = "notes"
               THEN loadDocuments(initialState, localStorage, EmptyData)
               ELSE [ state |-> initialState, data |-> EmptyData, steps |-> <<>> ] } :
        /\ state' = r.state
        /\ lastAction' = IF r.steps = <<>> THEN NoAction
                         ELSE lastDispatched(r.steps, r.state)
        /\ data' = r.data
        /\ editor' = EditorOf(r.state)
        /\ effects' = Effects("reload", r.steps)
        /\ messages' = <<>>
        /\ isLoading' = FALSE
        /\ currentInput' = <<>>
        /\ turn' = NoTurn
        /\ unmounted' = <<>>
        /\ tasks' = sampleTasks(NewDate(0))
        /\ draggedTask' = <<>>
        /\ lastDrop' = NoDrop
        /\ timer' = initialTimer
        /\ UNCHANGED << now, localStorage, last, saves, page, failed, todoListVars >>

\* The chat's createDocument, called by processAICommands once the reply
\* of the chat API is there, on whatever page the user is by then: the
\* document is added to the state, then saved.
CreateDocument ==
    \E id \in DateNow(state, localStorage, data), title \in Titles,
       setItemThrows \in BOOLEAN :
        \E r \in { createDocument(state, localStorage, data, title, id, NewDate(now),
                                  setItemThrows) } :
            /\ Len(state.documents) < MaxDocuments
            /\ state' = r.state
            /\ lastAction' = r.dispatched[1]
            /\ localStorage' = r.item
            /\ data' = r.data
            /\ IF page = "notes" THEN Rendered(r.state) ELSE UNCHANGED editor
            /\ effects' = Effects("createDocument", << "ADD_DOCUMENT", "saveDocument" >>)
            /\ failed' = (failed \/ r.outcome = "rejected")
            /\ UNCHANGED << now, last, saves, chatVars, kanbanVars, pomodoroVars, page,
                            todoListVars >>

NotesNext ==
    \/ HandleCreateDocument
    \/ HandleSelectDocument
    \/ HandleTitleChange
    \/ HandleContentChange
    \/ HandleSave
    \/ HandleDeleteDocument
    \/ LeaveNotes
    \/ EnterNotes
    \/ ReloadPage
    \/ CreateDocument

\* ------------------------------------------------------------- the todo list
\* The TodoList is followed for two todos.
MaxTodos == 2

\* What the user types as a new todo, and the priorities selected.
NewTodos == { << " ", "d", " " >>, << " " >> }

Priorities == { "high", "medium" }

TodoStatuses == { "pending", "in_progress", "completed" }

\* Layout shows the TodoList while showTodo is set; its todos start empty.
TodoListInit == todoList = [ mounted |-> FALSE, todos |-> <<>> ]

\* Date.now().toString() as the id of a todo: later than the reading every
\* id of the list and of the store was made from.
TodoDateNow(todos, item, dat) ==
    { id \in 1..MaxTodos :
        /\ \A i \in 1..Len(todos) : todos[i].id < id
        /\ \A i \in 1..Len(loadData(item, dat).data.todos) :
              loadData(item, dat).data.todos[i].id < id }

\* setTodos(todos.map(...)) of updateStatus keeping the todo as it was.
todosAfterUpdateKeepsStatus(todos, id, newTodo) == todos

\* setTodos(todos.map(todo => todo.id === id ? newTodo : todo))
todosAfterUpdate(todos, id, newTodo) ==
    [ i \in 1..Len(todos) |-> IF todos[i].id = id THEN newTodo ELSE todos[i] ]

\* setTodos(todos.filter(todo => todo.id !== id))
todosAfterDelete(todos, id) == SelectSeq(todos, LAMBDA todo : todo.id # id)

\* 'Show Todo': the TodoList is mounted and its effect runs loadTodos.
LoadTodos ==
    \E loaded \in { getAllTodos(localStorage, data) } :
        /\ page = "notes"
        /\ ~todoList.mounted
        /\ data' = loaded.data
        /\ todoList' = [ mounted |-> TRUE,
                         todos |-> IF loaded.outcome = "resolved" THEN loaded.value
                                   ELSE <<>> ]
        /\ UNCHANGED << storeVars, localStorage, last, saves, chatVars, editorVars,
                        kanbanVars, pomodoroVars, notesVars >>

\* 'Hide Todo': the TodoList is unmounted, and its todos are gone.
HideTodo ==
    /\ todoList.mounted
    /\ todoList' = [ mounted |-> FALSE, todos |-> <<>> ]
    /\ UNCHANGED << storeVars, storageVars, chatVars, editorVars, kanbanVars,
                    pomodoroVars, notesVars >>

\* addTodo: a todo of the trimmed text is saved and appended to the todos;
\* nothing happens for a text of spaces.
TodoListAddTodo ==
    \E newTodo \in NewTodos, selectedPriority \in Priorities,
       id \in TodoDateNow(todoList.todos, localStorage, data), setItemThrows \in BOOLEAN :
        \E todo \in { [ id |-> id, content |-> trim(newTodo), status |-> "pending",
                        priority |-> selectedPriority, createdAt |-> NewDate(now),
                        updatedAt |-> NewDate(now) ] } :
            \E saved \in { saveTodo(localStorage, data, todo, setItemThrows) } :
                /\ todoList.mounted
                /\ trim(newTodo) # <<>>
                /\ localStorage' = saved.item
                /\ data' = saved.data
                /\ failed' = (failed \/ saved.outcome = "rejected")
                /\ todoList' = IF saved.outcome = "resolved"
                               THEN [ todoList EXCEPT !.todos = Append(@, todo) ]
                               ELSE todoList
                /\ UNCHANGED << storeVars, last, saves, chatVars, editorVars, kanbanVars,
                                pomodoroVars, page, effects >>

\* updateStatus, on a todo of the list: the todo with the new status is
\* written to the store and replaces the one of the list.
TodoListUpdateStatus ==
    \E i \in 1..Len(todoList.todos), status \in TodoStatuses, setItemThrows \in BOOLEAN :
        \E newTodo \in { [ todoList.todos[i] EXCEPT !.status = status,
                                                    !.updatedAt = NewDate(now) ] } :
            \E saved \in { updateTodo(localStorage, data, newTodo, setItemThrows) } :
                /\ todoList.mounted
                /\ localStorage' = saved.item
                /\ data' = saved.data
                /\ failed' = (failed \/ saved.outcome = "rejected")
                /\ todoList' = IF saved.outcome = "resolved"
                               THEN [ todoList EXCEPT !.todos =
                                        todosAfterUpdate(@, newTodo.id, newTodo) ]
                               ELSE todoList
                /\ UNCHANGED << storeVars, last, saves, chatVars, editorVars, kanbanVars,
                                pomodoroVars, page, effects >>

\* deleteTodo, on a todo of the list.
TodoListDeleteTodo ==
    \E i \in 1..Len(todoList.todos), setItemThrows \in { FALSE } :
        \E deleted \in { deleteTodo(localStorage, data, todoList.todos[i].id,
                                    setItemThrows) } :
            /\ todoList.mounted
            /\ localStorage' = deleted.item
            /\ data' = deleted.data
            /\ failed' = (failed \/ deleted.outcome = "rejected")
            /\ todoList' = IF deleted.outcome = "resolved"
                           THEN [ todoList EXCEPT !.todos =
                                    todosAfterDelete(@, todoList.todos[i].id) ]
                           ELSE todoList
            /\ UNCHANGED << storeVars, last, saves, chatVars, editorVars, kanbanVars,
                            pomodoroVars, page, effects >>

\* The chat's createTodo while the TodoList is not shown: the todo is in
\* the store when the list is loaded.
CreateTodo ==
    \E id \in TodoDateNow(todoList.todos, localStorage, data), priority \in { "low" },
       setItemThrows \in { FALSE } :
        \E r \in { createTodo(state, localStorage, data, << "c" >>, priority, id,
                              NewDate(now), setItemThrows) } :
            /\ ~todoList.mounted
            /\ localStorage' = r.item
            /\ data' = r.data
            /\ failed' = (failed \/ r.outcome = "rejected")
            /\ UNCHANGED << storeVars, last, saves, chatVars, editorVars, kanbanVars,
                            pomodoroVars, page, effects, todoListVars >>

TodoListNext ==
    \/ LoadTodos
    \/ HideTodo
    \/ TodoListAddTodo
    \/ TodoListUpdateStatus
    \/ TodoListDeleteTodo
    \/ CreateTodo

\* ------------------------------------------------------------- specifications
\* The components as they are mounted.
UiInit == ChatInit /\ EditorInit /\ KanbanInit /\ PomodoroInit /\ NotesInit /\ TodoListInit

\* The persistence adapter under every sequence of calls, with the store idle.
Init == StorageInit /\ StoreInit /\ UiInit

Spec == Init /\ [][Next]_vars

\* The state store under every sequence of dispatches, with the adapter idle.
ReducerInit ==
    /\ localStorage = NullItem
    /\ data = EmptyData
    /\ last = NoCall
    /\ saves = NoSaves
    /\ StoreInit
    /\ UiInit

ReducerSpec == ReducerInit /\ [][StoreNext]_vars

\* The chat under every sequence of messages and outcomes of the chat API
\* and of the store's writes.
ChatSpec == Init /\ [][ChatNext]_vars

\* The chat while the user leaves its page and comes back to it.
ChatPageSpec == Init /\ [][ChatPageNext]_vars

\* The editor under every sequence of edits, selections and timeouts; the
\* writes of its saves do not fail, those of the sidebar's creations may.
EditorSpec == ReducerInit /\ [][EditorNext]_vars

\* The Kanban board under every sequence of drags, drops, creations and
\* deletions of tasks.
KanbanSpec == ReducerInit /\ [][KanbanNext]_vars

\* The Pomodoro timer under every sequence of ticks and button presses.
PomodoroSpec == ReducerInit /\ [][PomodoroNext]_vars

\* The notes page under every sequence of creations, selections, edits,
\* timeouts, deletions, navigations and reloads, with documents the chat
\* creates; the writes of the creations may fail, those of the deletions
\* and of the editor's saves do not.
NotesSpec == ReducerInit /\ [][NotesNext]_vars

\* The TodoList under every sequence of its own calls, shown and hidden,
\* with todos the chat creates while it is hidden; the writes of addTodo
\* and of updateStatus may fail.
TodoListSpec == ReducerInit /\ [][TodoListNext]_vars

\* ------------------------------------------------------------- the adapter's claims
\* The records the adapter reads in the current state: what loadData
\* returns, the parsed item when one is stored and this.data otherwise.
StoredData == loadData(localStorage, data).data

\* The same records as the text of the blob: the stored item, and the text
\* of this.data while no item is stored.
StoredItem == IF localStorage.present THEN localStorage ELSE JSONstringify(data)

\* A step that issues a new call (Await only resumes the caller of the
\* last one, Reload forgets it).
IsCall(op) == last'.op = op /\ ~last'.awaited

HasId(recs, id) == \E i \in 1..Len(recs) : recs[i].id = id

\* after is before with a record of this id at index i: in the place of
\* before's record of the id, or at the end when before holds none.
IsUpsertAt(after, before, id, i) ==
    /\ IF HasId(before, id)
       THEN Len(after) = Len(before) /\ i <= Len(before) /\ before[i].id = id
       ELSE Len(after) = Len(before) + 1 /\ i = Len(after)
    /\ after[i].id = id
    /\ \A j \in 1..Len(before) : j # i => after[j] = before[j]

\* after is before without its record of this id, the others in order.
IsRemovalOf(after, before, id) ==
    IF HasId(before, id)
    THEN /\ ~HasId(after, id)
         /\ \E i \in 1..Len(before) :
               /\ before[i].id = id
               /\ after = SubSeq(before, 1, i - 1) \o SubSeq(before, i + 1, Len(before))
    ELSE after = before

\* C1: saveDocument(doc) followed by getDocument(doc.id) returns a document
\* equal to doc in id, title, content and tags, and in createdAt and
\* updatedAt as instants.
C1_RoundTrip ==
    [][ ( /\ last.op = "saveDocument" /\ last.outcome = "resolved"
          /\ IsCall("getDocument") /\ last'.id = last.id )
        => ( last'.outcome = "resolved" /\ last'.value = last.arg ) ]_vars

\* getDocument has returned the document whose strings need escaping and
\* whose dates end in .999 and .001, which only a saveDocument stored.
C1_Witness ==
    /\ last.op = "getDocument" /\ last.outcome = "resolved"
    /\ last.value = << SampleDocument(last.id, "escaped") >>

\* C2: a resolved saveDocument replaces the stored record of doc.id at its
\* position, the number of records unchanged, or appends doc at the end
\* when no record has that id; every other record, the todos included, is
\* left as it was; saveTodo and updateTodo do the same to the todos.
C2_Upsert ==
    [][ /\ ( IsCall("saveDocument") /\ last'.outcome = "resolved" )
           => /\ localStorage'.present
              /\ \E i \in 1..Len(localStorage'.documents) :
                   /\ IsUpsertAt(localStorage'.documents, StoredItem.documents, last'.id, i)
                   /\ DocumentOf(ParseDoc(localStorage'.documents[i])) = last'.arg[1]
              /\ localStorage'.todos = StoredItem.todos
        /\ ( (IsCall("saveTodo") \/ IsCall("updateTodo")) /\ last'.outcome = "resolved" )
           => /\ localStorage'.present
              /\ \E i \in 1..Len(localStorage'.todos) :
                   /\ IsUpsertAt(localStorage'.todos, StoredItem.todos, last'.id, i)
                   /\ TodoItemOf(ParseTodo(localStorage'.todos[i])) = last'.arg[1]
              /\ localStorage'.documents = StoredItem.documents ]_vars

\* A saveDocument has replaced the first of two stored records by another
\* shape of the same id.
C2_Witness ==
    /\ last.op = "saveDocument" /\ last.outcome = "resolved" /\ localStorage.present
    /\ Len(StoredData.documents) = 2
    /\ StoredData.documents[1].id = last.id
    /\ last.arg[1] = SampleDocument(last.id, "escaped")
    /\ StoredData.documents[2].title = << "U" >>

\* C3: getAllDocuments returns the empty sequence when nothing has been
\* saved, and after N resolved saveDocument calls with pairwise distinct
\* ids (and no other write to the documents) it returns those N documents
\* in the order they were saved, each of which getDocument(id) returns too.
C3_GetAll ==
    saves.valid =>
      /\ last.op = "getAllDocuments" =>
            ( last.outcome = "resolved" /\ last.value = saves.docs )
      /\ last.op = "getDocument" =>
            \A i \in 1..Len(saves.docs) :
                saves.docs[i].id = last.id =>
                    ( last.outcome = "resolved" /\ last.value = << saves.docs[i] >> )

\* getAllDocuments has returned two documents saved one after the other.
C3_Witness ==
    /\ saves.valid /\ Len(saves.docs) >= 2
    /\ last.op = "getAllDocuments" /\ Len(last.value) = Len(saves.docs)

\* C4: after a resolved deleteDocument(id), getDocument(id) resolves with
\* null, whether or not id was stored; deleteDocument of an absent id
\* leaves the stored records as they were, and of a present id removes
\* that record only and keeps the others in order.
C4_Delete ==
    [][ /\ ( /\ last.op = "deleteDocument" /\ last.outcome = "resolved"
              /\ IsCall("getDocument") /\ last'.id = last.id )
           => ( last'.outcome = "resolved" /\ last'.value = <<>> )
        /\ ( IsCall("deleteDocument") /\ last'.outcome = "resolved" )
           => /\ localStorage'.present
              /\ IsRemovalOf(localStorage'.documents, StoredItem.documents, last'.id)
              /\ localStorage'.todos = StoredItem.todos ]_vars

\* A deleteDocument has removed one of two stored documents and kept the
\* other one.
C4_Witness ==
    /\ last.op = "deleteDocument" /\ last.outcome = "resolved"
    /\ Len(StoredData.documents) = 1
    /\ saves = NoSaves
    /\ StoredData.documents[1].id # last.id

C6_CorruptReadsAsEmpty ==
    ( /\ localStorage = CorruptItem
      /\ last.op \in { "getDocument", "getAllDocuments", "getAllTodos" } )
        => ( last.outcome = "resolved" /\ last.value = <<>> /\ data = EmptyData )

\* The effect of a write on the stored item: the record it saved is
\* stored, the record it deleted is not.
WriteKept(call, item) ==
    LET stored == JSONparse(item)
    IN  CASE call.op = "saveDocument" ->
               \E i \in 1..Len(stored.documents) :
                   DocumentOf(stored.documents[i]) = call.arg[1]
          [] call.op = "deleteDocument" -> ~HasId(stored.documents, call.id)
          [] call.op \in { "saveTodo", "updateTodo" } ->
               \E i \in 1..Len(stored.todos) :
                   TodoItemOf(stored.todos[i]) = call.arg[1]
          [] OTHER -> ~HasId(stored.todos, call.id)

\* Two writes of the same record: the second one is meant to replace the
\* first one's effect.
SameRecord(first, second) ==
    /\ first.id = second.id
    /\ (first.op \in DocumentOps) = (second.op \in DocumentOps)

\* A write is issued while the write before it is not awaited yet, both
\* promises resolve, and the two do not write the same record.
Race ==
    /\ last'.overlapped /\ ~last'.awaited /\ last'.outcome = "resolved"
    /\ ~SameRecord(last, last')

\* C7, as claimed: of two writes issued without awaiting each other, the
\* second one overwrites the item without the first one's change.
C7_LostUpdate == [][ Race => ~WriteKept(last, localStorage') ]_vars

\* C7, amended: each call reads, changes and writes the item before it
\* returns its promise, so when two writes issued without awaiting each
\* other have completed the item holds the change of both.
C7_NoLostUpdate ==
    [][ Race => ( WriteKept(last, localStorage') /\ WriteKept(last', localStorage') ) ]_vars

\* Two writes issued without awaiting each other have both completed and
\* their callers have resumed: a document and a todo are stored.
C7_Witness ==
    /\ last.overlapped /\ last.awaited /\ last.outcome = "resolved"
    /\ last.op = "saveTodo"
    /\ localStorage.present /\ localStorage.wellFormed
    /\ Len(localStorage.documents) >= 1 /\ Len(localStorage.todos) = 1

\* ------------------------------------------------------------- the store's claims
\* A step that dispatches an action of this type (Tick leaves lastAction
\* and the state alone).
Dispatched(type) == lastAction'.type = type /\ now' = now

\* C8: UPDATE_DOCUMENT(id, t, c) dispatched after ADD_DOCUMENT leaves every
\* document of that id with title t and content c, an updatedAt that is
\* not before its previous updatedAt, and the id, createdAt and tags it
\* had; every other document is unchanged and none is added or removed.
C8_Update ==
    [][ Dispatched("UPDATE_DOCUMENT") =>
          /\ Len(state'.documents) = Len(state.documents)
          /\ \A i \in 1..Len(state.documents) :
                LET before == state.documents[i]
                    after  == state'.documents[i]
                IN  IF before.id = lastAction'.payload.id
                    THEN /\ after.title = lastAction'.payload.title
                         /\ after.content = lastAction'.payload.content
                         /\ DateLE(before.updatedAt, after.updatedAt)
                         /\ after.id = before.id
                         /\ after.createdAt = before.createdAt
                         /\ after.tags = before.tags
                    ELSE after = before ]_vars

\* A document added at the first reading of the clock has been updated at
\* the second one, next to a document of another id that was not.
C8_Witness ==
    /\ lastAction.type = "UPDATE_DOCUMENT"
    /\ Len(state.documents) = 2
    /\ \E i, j \in 1..2 :
          /\ state.documents[i].id = lastAction.payload.id
          /\ state.documents[i].title = << "T" >>
          /\ state.documents[i].content = << "x" >>
          /\ state.documents[i].createdAt = NewDate(0)
          /\ state.documents[i].updatedAt = NewDate(1)
          /\ state.documents[j].id # lastAction.payload.id
          /\ state.documents[j] = newDoc(state.documents[j].id, 0)

\* C9: DELETE_DOCUMENT(id) leaves no document of that id in the collection
\* and the other documents as they were, in order; the active id becomes
\* null when it is id and is unchanged when it is not.
C9_Delete ==
    [][ Dispatched("DELETE_DOCUMENT") =>
          LET id == lastAction'.payload
          IN  /\ ~HasId(state'.documents, id)
              /\ state'.documents = SelectSeq(state.documents, LAMBDA doc : doc.id # id)
              /\ state'.activeDocumentId =
                    IF state.activeDocumentId = id THEN null ELSE state.activeDocumentId
        ]_vars

\* A DELETE_DOCUMENT has left the document of another id, no active id
\* and the preview on.
C9_Witness ==
    /\ lastAction.type = "DELETE_DOCUMENT"
    /\ state.activeDocumentId = null
    /\ Len(state.documents) = 1
    /\ state.documents[1].id # lastAction.payload
    /\ state.isPreviewMode

\* C10, as claimed: UPDATE_DOCUMENT or DELETE_DOCUMENT of an id that no
\* document has leaves the whole state unchanged.
C10_AbsentIdNoChange ==
    [][ ( /\ Dispatched("UPDATE_DOCUMENT") \/ Dispatched("DELETE_DOCUMENT")
          /\ ~HasId(state.documents,
                    IF lastAction'.type = "UPDATE_DOCUMENT"
                    THEN lastAction'.payload.id ELSE lastAction'.payload) )
        => state' = state ]_vars

\* C10, amended: UPDATE_DOCUMENT of an id that no document has leaves the
\* whole state unchanged; DELETE_DOCUMENT of such an id leaves the
\* documents, the preview flag and the search query unchanged, and the
\* active id too unless it is that id, and then it becomes null.
C10_AbsentId ==
    [][ /\ ( Dispatched("UPDATE_DOCUMENT") /\ ~HasId(state.documents, lastAction'.payload.id) )
           => state' = state
        /\ ( Dispatched("DELETE_DOCUMENT") /\ ~HasId(state.documents, lastAction'.payload) )
           => state' = [ state EXCEPT !.activeDocumentId =
                           IF @ = lastAction'.payload THEN null ELSE @ ] ]_vars

\* A DELETE_DOCUMENT has left as many documents as the collection holds at
\* most, so none had its id; one of them is active and the preview is on.
C10_Witness ==
    /\ lastAction.type = "DELETE_DOCUMENT"
    /\ Len(state.documents) = MaxDocuments
    /\ state.activeDocumentId = state.documents[1].id
    /\ state.isPreviewMode

\* ------------------------------------------------------------- the chat's claims
\* A step in which sendMessage completes, and one in which it completes
\* after the chat API replied, so that the commands were processed.
Responded == isLoading /\ ~isLoading'

Processed == Responded /\ turn'.api.kind = "ok"

\* The text of the message appended last.
Reply == messages[Len(messages)].content

\* The lower-cased message holds the phrase.
Mentions(userInput, phrase) == includes(toLowerCase(userInput), phrase)

HasDocumentTrigger(userInput) ==
    \/ Mentions(userInput, << "c", "r", "e", "a", "t", "e", " ", "d", "o", "c", "u", "m", "e", "n", "t" >>)
    \/ Mentions(userInput, << "n", "e", "w", " ", "d", "o", "c", "u", "m", "e", "n", "t" >>)
    \/ Mentions(userInput, << "a", "d", "d", " ", "d", "o", "c", "u", "m", "e", "n", "t" >>)

HasTodoTrigger(userInput) ==
    \/ Mentions(userInput, << "c", "r", "e", "a", "t", "e", " ", "t", "o", "d", "o" >>)
    \/ Mentions(userInput, << "a", "d", "d", " ", "t", "o", "d", "o" >>)
    \/ Mentions(userInput, << "n", "e", "w", " ", "t", "o", "d", "o" >>)
    \/ Mentions(userInput, << "r", "e", "m", "i", "n", "d", " ", "m", "e" >>)

\* The message asks for a document: a trigger, and a title the pattern
\* captures; and the same for a todo.
AsksDocument(userInput) == HasDocumentTrigger(userInput) /\ titleMatch(userInput).matched

AsksTodo(userInput) == HasTodoTrigger(userInput) /\ todoMatch(userInput).matched

\* seq holds sub as a run of consecutive elements.
Contains(seq, sub) == \E i \in 1..(Len(seq) + 1) : OccursAt(seq, i, sub)

\* C11: a chat turn builds at most one object, a Document or a TodoItem,
\* and adds at most one document to the store; a message that asks for a
\* document gets a document and no todo, also when it asks for a todo too:
\* the stored todos are left as they were.
C11_AtMostOneObject ==
    [][ Processed =>
          /\ Len(turn'.document) + Len(turn'.todo) <= 1
          /\ Len(state'.documents) <= Len(state.documents) + 1
          /\ AsksDocument(currentInput) =>
                /\ Len(turn'.document) = 1
                /\ turn'.todo = <<>>
                /\ StoredItem'.todos = StoredItem.todos ]_vars

\* The message that names a document and holds 'remind me to' has made a
\* document, titled Notes, and no todo.
C11_Witness ==
    /\ turn.userInput =
        << "N", "e", "w", " ", "D", "o", "c", "u", "m", "e", "n", "t", " ", "c", "a", "l",
        "l", "e", "d", " ", "'", "N", "o", "t", "e", "s", "'", " ", "a", "n", "d", " ",
        "r", "e", "m", "i", "n", "d", " ", "m", "e", " ", "t", "o", " ", "r", "e", "s",
        "t" >>
    /\ turn.outcome = "resolved"
    /\ Len(turn.document) = 1
    /\ turn.document[1].title = << "N", "o", "t", "e", "s" >>
    /\ turn.todo = <<>>
    /\ localStorage.present /\ localStorage.todos = <<>>

\* C12, as claimed: a message with a create-document trigger and a title T
\* adds one new Document of title T, with no content and no tags, to the
\* store's documents, the same document is stored by the adapter, and the
\* message appended is the confirmation that holds T.
C12_DocumentCreated ==
    [][ ( Processed /\ AsksDocument(currentInput) ) =>
          LET T == trim(titleMatch(currentInput).group)
          IN  /\ Len(state'.documents) = Len(state.documents) + 1
              /\ SubSeq(state'.documents, 1, Len(state.documents)) = state.documents
              /\ LET d == state'.documents[Len(state'.documents)]
                 IN  /\ d.title = T /\ d.content = <<>> /\ d.tags = <<>>
                     /\ turn'.document = << d >>
                     /\ localStorage'.present /\ localStorage'.wellFormed
                     /\ \E i \in 1..Len(localStorage'.documents) :
                           DocumentOf(ParseDoc(localStorage'.documents[i])) = d
              /\ Reply' = documentReply(T)
              /\ Contains(Reply', T) ]_vars

\* C13: the todo a chat turn builds has status pending, and its priority
\* is high when the user's message mentions urgent or important, low when
\* it mentions neither and mentions low priority, and medium otherwise,
\* whatever the assistant replied; a resolved turn has stored that todo.
C13_TodoPriority ==
    [][ ( Processed /\ turn'.todo # <<>> ) =>
          LET todo == turn'.todo[1]
          IN  /\ todo.status = "pending"
              /\ todo.priority =
                    IF \/ Mentions(currentInput, << "u", "r", "g", "e", "n", "t" >>)
                       \/ Mentions(currentInput, << "i", "m", "p", "o", "r", "t", "a", "n", "t" >>)
                    THEN "high"
                    ELSE IF Mentions(currentInput, << "l", "o", "w", " ", "p", "r", "i", "o", "r", "i", "t", "y" >>)
                         THEN "low" ELSE "medium"
              /\ turn'.outcome = "resolved" =>
                    \E i \in 1..Len(localStorage'.todos) :
                        TodoItemOf(ParseTodo(localStorage'.todos[i])) = todo ]_vars

\* The message that mentions IMPORTANT and low priority has made a todo of
\* high priority, stored.
C13_Witness ==
    /\ turn.userInput =
        << "a", "d", "d", " ", "t", "o", "d", "o", " ", "\"", "I", "M", "P", "O", "R", "T",
        "A", "N", "T", " ", "l", "o", "w", " ", "p", "r", "i", "o", "r", "i", "t", "y",
        "\"" >>
    /\ turn.outcome = "resolved"
    /\ Len(turn.todo) = 1
    /\ turn.todo[1].priority = "high"
    /\ turn.todo[1].content = << "I", "M", "P", "O", "R", "T", "A", "N", "T", " ", "l", "o", "w", " ", "p", "r",
        "i", "o", "r", "i", "t", "y" >>
    /\ Len(localStorage.todos) >= 1

\* C14: a user message with no trigger phrase builds no object, changes
\* neither the store nor the stored item, and gets the assistant's reply
\* as it came, also when that reply holds a command; and the objects a turn
\* builds are the same for every reply the assistant could have given.
C14_NoTrigger ==
    [][ Processed =>
          /\ ( ~HasDocumentTrigger(currentInput) /\ ~HasTodoTrigger(currentInput) ) =>
                /\ turn'.document = <<>> /\ turn'.todo = <<>>
                /\ state' = state
                /\ localStorage' = localStorage /\ data' = data
                /\ Reply' = turn'.api.content
          /\ \A other \in AiResponses :
                LET r == processAICommands(state, localStorage, data,
                                           Commands[currentInput], other, now + 1,
                                           NewDate(now), turn'.setItemThrows)
                IN  r.document = turn'.document /\ r.todo = turn'.todo ]_vars

\* The message without a trigger has been answered by the reply that holds
\* a document command, and nothing was built.
C14_Witness ==
    /\ turn.userInput = << "w", "h", "a", "t", " ", "i", "s", " ", "a", " ", "m", "o", "n", "a", "d" >>
    /\ turn.api.kind = "ok"
    /\ turn.api.content = << "c", "r", "e", "a", "t", "e", " ", "d", "o", "c", "u", "m", "e", "n", "t", " ",
        "t", "i", "t", "l", "e", "d", " ", "S", "p", "a", "m" >>
    /\ Reply = turn.api.content
    /\ turn.document = <<>> /\ turn.todo = <<>>
    /\ state.documents = <<>>
    /\ ~localStorage.present

C16_NeverRaises ==
    [][ Processed =>
          /\ turn'.outcome = "resolved"
          /\ ( turn'.setItemThrows \/ JSONparseThrows(localStorage) ) =>
                ( state' = state /\ Reply' = turn'.api.content ) ]_vars

\* The assistant messages of the catch block.
ConnectivityMessage ==
    << "Network error: Unable to connect to AI service. Please check your internet connection." >>

AuthenticationMessage == << "Authentication error: Invalid API key." >>

RateLimitMessage == << "Rate limit exceeded. Please try again later." >>

GenericMessage == << "Sorry, I encountered an error. Please try again." >>

\* C17, as claimed: a failed chat call appends one assistant message, the
\* connectivity message for a network failure, the authentication message
\* for status 401, the rate-limit message for status 429 and the generic
\* message for every other failure.
C17_ErrorMessages ==
    [][ ( Responded /\ turn'.api.kind \notin { "ok", "none" } ) =>
          /\ Len(messages') = Len(messages) + 1
          /\ messages'[Len(messages')].role = "assistant"
          /\ Reply' =
               CASE turn'.api.kind = "network" -> ConnectivityMessage
                 [] turn'.api.kind = "status" /\ turn'.api.status = << "4", "0", "1" >> ->
                      AuthenticationMessage
                 [] turn'.api.kind = "status" /\ turn'.api.status = << "4", "2", "9" >> ->
                      RateLimitMessage
                 [] OTHER -> GenericMessage ]_vars

\* ------------------------------------------------------------- the editor's claims
\* The stored item holds a document of that id, title and content.
IsStored(item, id, title, content) ==
    \E i \in 1..Len(item.documents) :
        /\ DocumentOf(ParseDoc(item.documents[i])).id = id
        /\ DocumentOf(ParseDoc(item.documents[i])).title = title
        /\ DocumentOf(ParseDoc(item.documents[i])).content = content

\* The editor holds an edit of the active document that is not stored.
Unsaved ==
    /\ activeDocument(state) # <<>>
    /\ ~IsStored(localStorage, state.activeDocumentId, editor.title, editor.content)

\* C18, as claimed: every edit of the active document's title or content
\* gets written to the adapter with no explicit save; in a finite run, the
\* editor never leaves a document whose edit is not stored without that
\* edit being written in the same step.
C18_EveryEditSaved ==
    [][ ( Unsaved /\ state'.activeDocumentId # state.activeDocumentId ) =>
          IsStored(localStorage', state.activeDocumentId, editor.title,
                   editor.content) ]_vars

\* ------------------------------------------------------------- the board's claims
\* The task of that id in a list of tasks: a sequence of one, or of none.
TaskOf(list, id) == SelectSeq(list, LAMBDA task : task.id = id)

\* A step that handles a drop of a task that is in the list.
Dropped ==
    /\ draggedTask # <<>> /\ draggedTask' = <<>>
    /\ lastDrop'.dropped
    /\ TaskOf(tasks, lastDrop'.task.id) # <<>>

\* C19, as claimed: a drop on a column of another status than the dragged
\* task's gives the task of that id in the list the column's status, and
\* a completedAt when the column is Completed; a drop on the task's own
\* column leaves the list as it was.
C19_DropChangesStatus ==
    [][ Dropped =>
          IF lastDrop'.task.status # lastDrop'.status
          THEN /\ TaskOf(tasks', lastDrop'.task.id) # <<>>
               /\ TaskOf(tasks', lastDrop'.task.id)[1].status = lastDrop'.status
               /\ lastDrop'.status = "completed" =>
                     TaskOf(tasks', lastDrop'.task.id)[1].completedAt.type = "Date"
          ELSE tasks' = tasks ]_vars

\* ------------------------------------------------------------- the timer's claims
\* A step of the interval: the timer is active and changes otherwise than
\* by pauseTimer or resetTimer.
Ticked ==
    /\ timer.isActive
    /\ timer' # timer
    /\ timer' # [ timer EXCEPT !.isActive = FALSE ]
    /\ timer' # initialTimer

\* C20: a tick that ends a work countdown stops the timer, adds one to
\* the session count and loads a break, of 15 minutes when the new count
\* is a multiple of 4 and of 5 minutes otherwise; a tick that ends a break
\* stops the timer and loads 25 minutes of work with the count unchanged;
\* every other tick takes one second off the countdown and nothing else;
\* and while the timer is not active the countdown stays where it is, until
\* the timer is started or reset.
C20_PomodoroCycle ==
    [][ /\ ( Ticked /\ totalSeconds(timer) <= 1 /\ ~timer.isBreak ) =>
              /\ ~timer'.isActive
              /\ timer'.isBreak
              /\ timer'.sessionCount = timer.sessionCount + 1
              /\ timer'.minutes = IF timer'.sessionCount % 4 = 0 THEN 15 ELSE 5
              /\ timer'.seconds = 0
        /\ ( Ticked /\ totalSeconds(timer) <= 1 /\ timer.isBreak ) =>
              /\ ~timer'.isActive
              /\ ~timer'.isBreak
              /\ timer'.sessionCount = timer.sessionCount
              /\ timer'.minutes = 25
              /\ timer'.seconds = 0
        /\ ( Ticked /\ totalSeconds(timer) > 1 ) =>
              /\ totalSeconds(timer') = totalSeconds(timer) - 1
              /\ timer'.seconds < 60
              /\ timer'.isActive
              /\ timer'.isBreak = timer.isBreak
              /\ timer'.sessionCount = timer.sessionCount
        /\ ~timer.isActive =>
              \/ timer' = initialTimer
              \/ /\ totalSeconds(timer') = totalSeconds(timer)
                 /\ timer'.isBreak = timer.isBreak
                 /\ timer'.sessionCount = timer.sessionCount ]_vars

\* The fourth work session has run out: the long break is loaded and the
\* timer stands still.
C20_Witness ==
    /\ timer.isBreak
    /\ ~timer.isActive
    /\ timer.sessionCount = 4
    /\ timer.minutes = 15
    /\ timer.seconds = 0

\* ------------------------------------------------------------- the search's claim
\* text holds query as a run of characters, whatever the case of either.
ContainsIgnoringCase(text, query) ==
    \E i \in 1..(Len(text) + 1) :
        /\ i + Len(query) - 1 <= Len(text)
        /\ \A k \in 1..Len(query) : toLowerChar(text[i + k - 1]) = toLowerChar(query[k])

\* The document matches the query by its title, its content or a tag.
Matches(doc, query) ==
    \/ ContainsIgnoringCase(doc.title, query)
    \/ ContainsIgnoringCase(doc.content, query)
    \/ \E k \in 1..Len(doc.tags) : ContainsIgnoringCase(doc.tags[k], query)

\* C21: a searchDocuments(query) that resolved returned the stored documents
\* whose title, content or some tag holds query whatever the case, in their
\* stored order, and all of them for the empty query.
C21_Search ==
    ( last.op = "searchDocuments" /\ last.outcome = "resolved" ) =>
        /\ last.value = SelectSeq(SeqMap(DocumentOf, StoredData.documents),
                                  LAMBDA doc : Matches(doc, last.arg[1]))
        /\ last.arg[1] = <<>> => Len(last.value) = Len(StoredData.documents)

\* The query T has found the one of two stored documents that has the tag t.
C21_Witness ==
    /\ last.op = "searchDocuments" /\ last.outcome = "resolved"
    /\ last.arg = << << "T" >> >>
    /\ Len(StoredData.documents) = 2
    /\ Len(last.value) = 1
    /\ \E k \in 1..Len(last.value[1].tags) : last.value[1].tags[k] = << "t" >>


\* ------------------------------------------------------------- the notes page's claims
\* The records of a list have the ids of no two places of it equal.
DistinctIds(list) ==
    \A i, j \in 1..Len(list) : list[i].id = list[j].id => i = j

\* Two lists hold the same ids, and under each id the same title and content.
SameDocuments(documents, records) ==
    /\ { documents[i].id : i \in 1..Len(documents) } =
       { records[i].id : i \in 1..Len(records) }
    /\ \A i \in 1..Len(documents), j \in 1..Len(records) :
          documents[i].id = records[j].id =>
             /\ documents[i].title = records[j].title
             /\ documents[i].content = records[j].content

\* C22, as claimed: while no write of the store has failed, between two
\* handlers the documents of the state and the records of the store hold
\* the same ids, each once, and under each id the same title and content.
C22_AgreementEverywhere ==
    ~failed =>
       /\ DistinctIds(state.documents)
       /\ DistinctIds(StoredData.documents)
       /\ SameDocuments(state.documents, StoredData.documents)

\* C22, amended: they do so while Layout is mounted, the component that
\* loads the documents; on another route the state holds what it held when
\* the route was entered and what the chat created since, and nothing
\* after a reload.
C22_Agreement ==
    ( ~failed /\ page = "notes" ) =>
       /\ DistinctIds(state.documents)
       /\ DistinctIds(StoredData.documents)
       /\ SameDocuments(state.documents, StoredData.documents)

\* The notes page shows two documents, the active one with an edit that
\* handleSave has just saved, the other one with a title of the chat's.
C22_Witness ==
    /\ ~failed
    /\ effects.handler = "handleSave"
    /\ Len(state.documents) = 2
    /\ state.documents[1].title = << "T" >>
    /\ state.documents[1].content = << "x" >>
    /\ state.documents[2].title = << "T" >>
    /\ state.documents[2].content = <<>>
    /\ state.activeDocumentId = state.documents[1].id

\* The writes of the store and the dispatches of the reducer.
StoreWrites == { "saveDocument", "deleteDocument" }

ReducerActions == { "SET_DOCUMENTS", "ADD_DOCUMENT", "UPDATE_DOCUMENT", "DELETE_DOCUMENT",
                    "SET_ACTIVE_DOCUMENT" }

\* The handlers of the sidebar and of the editor that change a document.
SavingHandlers == { "handleCreateDocument", "handleSave", "handleDeleteDocument" }

WriteFailed(handlers) ==
    /\ effects'.handler \in handlers
    /\ now' = now
    /\ ~failed /\ failed'

Saved ==
    /\ effects' = Effects("handleSave", << "saveDocument", "UPDATE_DOCUMENT" >>)
    /\ now' = now
    /\ editor.timeoutId # <<>>

\* The title or the content of the editor changes.
TextChanges == editor'.title # editor.title \/ editor'.content # editor.content

\* C24: at most one timeout is pending; a step that changes the title or
\* the content of the active document leaves exactly the timeout of the new
\* title and content, the one that was pending being cleared; and the save
\* of a timeout that fires writes the title and content the editor holds
\* by then, never ones that were typed over.
C24_Debounced ==
    [][ /\ Len(editor'.timeoutId) <= 1
        /\ ( TextChanges /\ activeDocument(state') # <<>> ) =>
              editor'.timeoutId = Timeout(activeDocument(state')[1], editor'.title,
                                          editor'.content)
        /\ Saved =>
              /\ lastAction'.payload.title = editor.title
              /\ lastAction'.payload.content = editor.content
              /\ IsStored(localStorage', state.activeDocumentId, editor.title,
                          editor.content) ]_vars

\* A title and a content were typed, one after the other, and the timeout
\* that fired saved both.
C24_Witness ==
    /\ effects = Effects("handleSave", << "saveDocument", "UPDATE_DOCUMENT" >>)
    /\ editor.title = << "T" >>
    /\ editor.content = << "x" >>
    /\ IsStored(localStorage, state.activeDocumentId, << "T" >>, << "x" >>)
    /\ activeDocument(state)[1].content = << "x" >>

\* C25, as claimed: once handleSave has saved the text of the editor, no
\* timeout is pending, so that without another edit or selection the editor
\* issues no further save and no further UPDATE_DOCUMENT.
C25_Quiesces ==
    [][ Saved => editor'.timeoutId = <<>> ]_vars

\* The text of the active document of a state on a page: the empty one
\* without one, and on a page that has no editor.
TextOf(st, route) ==
    IF activeDocument(st) = <<>> \/ route # "notes"
    THEN [ title |-> <<>>, content |-> <<>> ]
    ELSE [ title |-> activeDocument(st)[1].title,
           content |-> activeDocument(st)[1].content ]

\* C26: the text the editor holds is the active document's: a step that
\* changes it is the user typing into the active document, or loads the
\* text of the document that is active after it, or unmounts the editor,
\* which then holds none; the pending timeout holds
\* the active document and the editor's text; and handleSave writes and
\* dispatches the editor's text under the active document's id.
C26_OwnText ==
    [][ /\ TextChanges =>
              \/ /\ effects'.handler \in { "handleTitleChange", "handleContentChange" }
                 /\ state'.activeDocumentId = state.activeDocumentId
                 /\ activeDocument(state) # <<>>
              \/ /\ editor'.title = TextOf(state', page').title
                 /\ editor'.content = TextOf(state', page').content
        /\ state'.activeDocumentId # state.activeDocumentId =>
              /\ editor'.title = TextOf(state', page').title
              /\ editor'.content = TextOf(state', page').content
        /\ editor'.timeoutId # <<>> =>
              /\ activeDocument(state') = << editor'.timeoutId[1].activeDocument >>
              /\ editor'.timeoutId[1].title = editor'.title
              /\ editor'.timeoutId[1].content = editor'.content
        /\ Saved =>
              /\ lastAction'.payload = [ id |-> state.activeDocumentId,
                                         content |-> editor.content,
                                         title |-> editor.title ]
              /\ IsStored(localStorage', state.activeDocumentId, editor.title,
                          editor.content) ]_vars

\* Text was typed into the second document while the first one holds
\* another text, and handleSave saved it under the second one's id, not
\* under the first one's.
C26_Witness ==
    /\ effects = Effects("handleSave", << "saveDocument", "UPDATE_DOCUMENT" >>)
    /\ Len(state.documents) = 2
    /\ state.activeDocumentId = state.documents[2].id
    /\ state.documents[1].content = <<>>
    /\ state.documents[2].content = << "x" >>
    /\ ~IsStored(localStorage, state.documents[1].id, state.documents[1].title, << "x" >>)
    /\ IsStored(localStorage, state.documents[2].id, state.documents[2].title, << "x" >>)

\* C27, as claimed: activeDocumentId is null or the id of a document of
\* the state.
C27_ActiveInCollection ==
    \/ state.activeDocumentId = null
    \/ \E i \in 1..Len(state.documents) : state.documents[i].id = state.activeDocumentId

Appends(role) ==
    /\ Len(messages') = Len(messages) + 1
    /\ SubSeq(messages', 1, Len(messages)) = messages
    /\ messages'[Len(messages')].role = role

C30_TimerInRange ==
    /\ timer.minutes >= 0
    /\ timer.seconds \in 0..59
    /\ totalSeconds(timer) >= 0
    /\ progress(timer) \in 0..100
=============================================================================
